---------------------------- MODULE Spec2Model ----------------------------
(***************************************************************************)
(* Model of the oil-price scraper: main.py's endless loop around           *)
(* Scraper.run(), the per-provider tasks that run() fans out with          *)
(* asyncio.gather, and the price normalizer _sanitize_price_string.        *)
(*                                                                         *)
(* Text is modelled as a sequence of one-character strings.  Every network *)
(* call is a suspension point: one action sends a request, a later action  *)
(* resumes the caller with the response and runs it up to its next         *)
(* request.  A response status of ERR stands for a call that raises        *)
(* (transport error) instead of returning a response.                      *)
(***************************************************************************)
EXTENDS Integers, Sequences, FiniteSets, Bags

VARIABLES
    mainpc,     \* position of main(): start, login, list, gather, post_run, sleep,
                \* unwinding (an exception is leaving run() and main()), crashed
    runs,       \* number of runs started so far
    token,      \* credentials.token: <<>> (None) or <<access_token, token_type>>
    authHdr,    \* Authorization header of auth_session: <<>> or <<token_type, access_token>>
    sessOpen,   \* auth_session is open
    providers,  \* self.providers: the list kept from the last successful listing
    tasks,      \* the provider tasks spawned by the current run's gather
    reqs,       \* bag of the requests sent during the current run
    loginSt,    \* status of the current run's login response (NONE while pending)
    loginTok,   \* token carried by the current run's login response (<<>> if none)
    listSt,     \* status of the current run's list response (NONE while pending)
    run_start,  \* self.run_start
    run_end,    \* self.run_end (NONE while None)
    posted,     \* bodies of the POST /scraping_runs requests of the current run
    runInit,    \* the clock reading taken when the current run began (NONE before)
    nin,        \* input handed to the price normalizer (specification SpecNorm)
    nout        \* outcome of the price normalizer on nin

clock == <<run_start, run_end, posted, runInit>>

vars == <<mainpc, runs, token, authHdr, sessOpen, providers, tasks, reqs,
          loginSt, loginTok, listSt, clock, nin, nout>>

-----------------------------------------------------------------------------
(* Bounds *)

MaxRuns == 2

MaxProviders == 2

MaxLen == 4

-----------------------------------------------------------------------------
(* Text and numbers *)

\* A text is a sequence of characters.  An ASCII character is written as
\* itself, any other character by its code point: "U+00A0" is the no-break
\* space, "U+0663" the Arabic-Indic digit three.

\* The decimal digits float() reads (Unicode category Nd, 660 characters), a
\* row for each script, zero to nine.
DecimalDigits ==
    << <<"0", "1", "2", "3", "4", "5", "6", "7", "8", "9">>,
       <<"U+0660", "U+0661", "U+0662", "U+0663", "U+0664", "U+0665", "U+0666", "U+0667", "U+0668", "U+0669">>,
       <<"U+06F0", "U+06F1", "U+06F2", "U+06F3", "U+06F4", "U+06F5", "U+06F6", "U+06F7", "U+06F8", "U+06F9">>,
       <<"U+07C0", "U+07C1", "U+07C2", "U+07C3", "U+07C4", "U+07C5", "U+07C6", "U+07C7", "U+07C8", "U+07C9">>,
       <<"U+0966", "U+0967", "U+0968", "U+0969", "U+096A", "U+096B", "U+096C", "U+096D", "U+096E", "U+096F">>,
       <<"U+09E6", "U+09E7", "U+09E8", "U+09E9", "U+09EA", "U+09EB", "U+09EC", "U+09ED", "U+09EE", "U+09EF">>,
       <<"U+0A66", "U+0A67", "U+0A68", "U+0A69", "U+0A6A", "U+0A6B", "U+0A6C", "U+0A6D", "U+0A6E", "U+0A6F">>,
       <<"U+0AE6", "U+0AE7", "U+0AE8", "U+0AE9", "U+0AEA", "U+0AEB", "U+0AEC", "U+0AED", "U+0AEE", "U+0AEF">>,
       <<"U+0B66", "U+0B67", "U+0B68", "U+0B69", "U+0B6A", "U+0B6B", "U+0B6C", "U+0B6D", "U+0B6E", "U+0B6F">>,
       <<"U+0BE6", "U+0BE7", "U+0BE8", "U+0BE9", "U+0BEA", "U+0BEB", "U+0BEC", "U+0BED", "U+0BEE", "U+0BEF">>,
       <<"U+0C66", "U+0C67", "U+0C68", "U+0C69", "U+0C6A", "U+0C6B", "U+0C6C", "U+0C6D", "U+0C6E", "U+0C6F">>,
       <<"U+0CE6", "U+0CE7", "U+0CE8", "U+0CE9", "U+0CEA", "U+0CEB", "U+0CEC", "U+0CED", "U+0CEE", "U+0CEF">>,
       <<"U+0D66", "U+0D67", "U+0D68", "U+0D69", "U+0D6A", "U+0D6B", "U+0D6C", "U+0D6D", "U+0D6E", "U+0D6F">>,
       <<"U+0DE6", "U+0DE7", "U+0DE8", "U+0DE9", "U+0DEA", "U+0DEB", "U+0DEC", "U+0DED", "U+0DEE", "U+0DEF">>,
       <<"U+0E50", "U+0E51", "U+0E52", "U+0E53", "U+0E54", "U+0E55", "U+0E56", "U+0E57", "U+0E58", "U+0E59">>,
       <<"U+0ED0", "U+0ED1", "U+0ED2", "U+0ED3", "U+0ED4", "U+0ED5", "U+0ED6", "U+0ED7", "U+0ED8", "U+0ED9">>,
       <<"U+0F20", "U+0F21", "U+0F22", "U+0F23", "U+0F24", "U+0F25", "U+0F26", "U+0F27", "U+0F28", "U+0F29">>,
       <<"U+1040", "U+1041", "U+1042", "U+1043", "U+1044", "U+1045", "U+1046", "U+1047", "U+1048", "U+1049">>,
       <<"U+1090", "U+1091", "U+1092", "U+1093", "U+1094", "U+1095", "U+1096", "U+1097", "U+1098", "U+1099">>,
       <<"U+17E0", "U+17E1", "U+17E2", "U+17E3", "U+17E4", "U+17E5", "U+17E6", "U+17E7", "U+17E8", "U+17E9">>,
       <<"U+1810", "U+1811", "U+1812", "U+1813", "U+1814", "U+1815", "U+1816", "U+1817", "U+1818", "U+1819">>,
       <<"U+1946", "U+1947", "U+1948", "U+1949", "U+194A", "U+194B", "U+194C", "U+194D", "U+194E", "U+194F">>,
       <<"U+19D0", "U+19D1", "U+19D2", "U+19D3", "U+19D4", "U+19D5", "U+19D6", "U+19D7", "U+19D8", "U+19D9">>,
       <<"U+1A80", "U+1A81", "U+1A82", "U+1A83", "U+1A84", "U+1A85", "U+1A86", "U+1A87", "U+1A88", "U+1A89">>,
       <<"U+1A90", "U+1A91", "U+1A92", "U+1A93", "U+1A94", "U+1A95", "U+1A96", "U+1A97", "U+1A98", "U+1A99">>,
       <<"U+1B50", "U+1B51", "U+1B52", "U+1B53", "U+1B54", "U+1B55", "U+1B56", "U+1B57", "U+1B58", "U+1B59">>,
       <<"U+1BB0", "U+1BB1", "U+1BB2", "U+1BB3", "U+1BB4", "U+1BB5", "U+1BB6", "U+1BB7", "U+1BB8", "U+1BB9">>,
       <<"U+1C40", "U+1C41", "U+1C42", "U+1C43", "U+1C44", "U+1C45", "U+1C46", "U+1C47", "U+1C48", "U+1C49">>,
       <<"U+1C50", "U+1C51", "U+1C52", "U+1C53", "U+1C54", "U+1C55", "U+1C56", "U+1C57", "U+1C58", "U+1C59">>,
       <<"U+A620", "U+A621", "U+A622", "U+A623", "U+A624", "U+A625", "U+A626", "U+A627", "U+A628", "U+A629">>,
       <<"U+A8D0", "U+A8D1", "U+A8D2", "U+A8D3", "U+A8D4", "U+A8D5", "U+A8D6", "U+A8D7", "U+A8D8", "U+A8D9">>,
       <<"U+A900", "U+A901", "U+A902", "U+A903", "U+A904", "U+A905", "U+A906", "U+A907", "U+A908", "U+A909">>,
       <<"U+A9D0", "U+A9D1", "U+A9D2", "U+A9D3", "U+A9D4", "U+A9D5", "U+A9D6", "U+A9D7", "U+A9D8", "U+A9D9">>,
       <<"U+A9F0", "U+A9F1", "U+A9F2", "U+A9F3", "U+A9F4", "U+A9F5", "U+A9F6", "U+A9F7", "U+A9F8", "U+A9F9">>,
       <<"U+AA50", "U+AA51", "U+AA52", "U+AA53", "U+AA54", "U+AA55", "U+AA56", "U+AA57", "U+AA58", "U+AA59">>,
       <<"U+ABF0", "U+ABF1", "U+ABF2", "U+ABF3", "U+ABF4", "U+ABF5", "U+ABF6", "U+ABF7", "U+ABF8", "U+ABF9">>,
       <<"U+FF10", "U+FF11", "U+FF12", "U+FF13", "U+FF14", "U+FF15", "U+FF16", "U+FF17", "U+FF18", "U+FF19">>,
       <<"U+104A0", "U+104A1", "U+104A2", "U+104A3", "U+104A4", "U+104A5", "U+104A6", "U+104A7", "U+104A8", "U+104A9">>,
       <<"U+10D30", "U+10D31", "U+10D32", "U+10D33", "U+10D34", "U+10D35", "U+10D36", "U+10D37", "U+10D38", "U+10D39">>,
       <<"U+11066", "U+11067", "U+11068", "U+11069", "U+1106A", "U+1106B", "U+1106C", "U+1106D", "U+1106E", "U+1106F">>,
       <<"U+110F0", "U+110F1", "U+110F2", "U+110F3", "U+110F4", "U+110F5", "U+110F6", "U+110F7", "U+110F8", "U+110F9">>,
       <<"U+11136", "U+11137", "U+11138", "U+11139", "U+1113A", "U+1113B", "U+1113C", "U+1113D", "U+1113E", "U+1113F">>,
       <<"U+111D0", "U+111D1", "U+111D2", "U+111D3", "U+111D4", "U+111D5", "U+111D6", "U+111D7", "U+111D8", "U+111D9">>,
       <<"U+112F0", "U+112F1", "U+112F2", "U+112F3", "U+112F4", "U+112F5", "U+112F6", "U+112F7", "U+112F8", "U+112F9">>,
       <<"U+11450", "U+11451", "U+11452", "U+11453", "U+11454", "U+11455", "U+11456", "U+11457", "U+11458", "U+11459">>,
       <<"U+114D0", "U+114D1", "U+114D2", "U+114D3", "U+114D4", "U+114D5", "U+114D6", "U+114D7", "U+114D8", "U+114D9">>,
       <<"U+11650", "U+11651", "U+11652", "U+11653", "U+11654", "U+11655", "U+11656", "U+11657", "U+11658", "U+11659">>,
       <<"U+116C0", "U+116C1", "U+116C2", "U+116C3", "U+116C4", "U+116C5", "U+116C6", "U+116C7", "U+116C8", "U+116C9">>,
       <<"U+11730", "U+11731", "U+11732", "U+11733", "U+11734", "U+11735", "U+11736", "U+11737", "U+11738", "U+11739">>,
       <<"U+118E0", "U+118E1", "U+118E2", "U+118E3", "U+118E4", "U+118E5", "U+118E6", "U+118E7", "U+118E8", "U+118E9">>,
       <<"U+11950", "U+11951", "U+11952", "U+11953", "U+11954", "U+11955", "U+11956", "U+11957", "U+11958", "U+11959">>,
       <<"U+11C50", "U+11C51", "U+11C52", "U+11C53", "U+11C54", "U+11C55", "U+11C56", "U+11C57", "U+11C58", "U+11C59">>,
       <<"U+11D50", "U+11D51", "U+11D52", "U+11D53", "U+11D54", "U+11D55", "U+11D56", "U+11D57", "U+11D58", "U+11D59">>,
       <<"U+11DA0", "U+11DA1", "U+11DA2", "U+11DA3", "U+11DA4", "U+11DA5", "U+11DA6", "U+11DA7", "U+11DA8", "U+11DA9">>,
       <<"U+16A60", "U+16A61", "U+16A62", "U+16A63", "U+16A64", "U+16A65", "U+16A66", "U+16A67", "U+16A68", "U+16A69">>,
       <<"U+16AC0", "U+16AC1", "U+16AC2", "U+16AC3", "U+16AC4", "U+16AC5", "U+16AC6", "U+16AC7", "U+16AC8", "U+16AC9">>,
       <<"U+16B50", "U+16B51", "U+16B52", "U+16B53", "U+16B54", "U+16B55", "U+16B56", "U+16B57", "U+16B58", "U+16B59">>,
       <<"U+1D7CE", "U+1D7CF", "U+1D7D0", "U+1D7D1", "U+1D7D2", "U+1D7D3", "U+1D7D4", "U+1D7D5", "U+1D7D6", "U+1D7D7">>,
       <<"U+1D7D8", "U+1D7D9", "U+1D7DA", "U+1D7DB", "U+1D7DC", "U+1D7DD", "U+1D7DE", "U+1D7DF", "U+1D7E0", "U+1D7E1">>,
       <<"U+1D7E2", "U+1D7E3", "U+1D7E4", "U+1D7E5", "U+1D7E6", "U+1D7E7", "U+1D7E8", "U+1D7E9", "U+1D7EA", "U+1D7EB">>,
       <<"U+1D7EC", "U+1D7ED", "U+1D7EE", "U+1D7EF", "U+1D7F0", "U+1D7F1", "U+1D7F2", "U+1D7F3", "U+1D7F4", "U+1D7F5">>,
       <<"U+1D7F6", "U+1D7F7", "U+1D7F8", "U+1D7F9", "U+1D7FA", "U+1D7FB", "U+1D7FC", "U+1D7FD", "U+1D7FE", "U+1D7FF">>,
       <<"U+1E140", "U+1E141", "U+1E142", "U+1E143", "U+1E144", "U+1E145", "U+1E146", "U+1E147", "U+1E148", "U+1E149">>,
       <<"U+1E2F0", "U+1E2F1", "U+1E2F2", "U+1E2F3", "U+1E2F4", "U+1E2F5", "U+1E2F6", "U+1E2F7", "U+1E2F8", "U+1E2F9">>,
       <<"U+1E950", "U+1E951", "U+1E952", "U+1E953", "U+1E954", "U+1E955", "U+1E956", "U+1E957", "U+1E958", "U+1E959">>,
       <<"U+1FBF0", "U+1FBF1", "U+1FBF2", "U+1FBF3", "U+1FBF4", "U+1FBF5", "U+1FBF6", "U+1FBF7", "U+1FBF8", "U+1FBF9">> >>

Digits == {DecimalDigits[b][k] : b \in DOMAIN DecimalDigits, k \in 1..10}

DigitVal(c) ==
    CASE c = "0" -> 0 [] c = "1" -> 1 [] c = "2" -> 2 [] c = "3" -> 3
      [] c = "4" -> 4 [] c = "5" -> 5 [] c = "6" -> 6 [] c = "7" -> 7
      [] c = "8" -> 8 [] c = "9" -> 9
      [] OTHER ->
            (CHOOSE k \in 1..10 :
                 \E b \in DOMAIN DecimalDigits : DecimalDigits[b][k] = c) - 1

Least(S) == CHOOSE k \in S : \A m \in S : k <= m

Greatest(S) == CHOOSE k \in S : \A m \in S : k >= m

\* str.replace(old, new) for a non-empty old: one left-to-right pass over
\* non-overlapping occurrences, from each occurrence on to the next one
\* after it; replaced text is not scanned again.
RECURSIVE Replace(_, _, _)
Replace(s, old, new) ==
    LET found == {i \in 1..(Len(s) - Len(old) + 1) :
                      SubSeq(s, i, i + Len(old) - 1) = old}
    IN  IF found = {} THEN s
        ELSE LET i == Least(found)
             IN  SubSeq(s, 1, i - 1) \o new
                     \o Replace(SubSeq(s, i + Len(old), Len(s)), old, new)

\* Variant of SanitizeString: the decimal comma is turned into a point
\* before the points are removed.
SanitizeStringCommaFirst(s) ==
    Replace(Replace(Replace(Replace(Replace(s,
        <<"k", "r", ".">>, <<>>),
        <<",", "-">>, <<>>),
        <<",">>, <<".">>),
        <<".">>, <<>>),
        <<" ">>, <<>>)

\* The chain of replacements of _sanitize_price_string, in source order.
SanitizeString(s) ==
    Replace(Replace(Replace(Replace(Replace(s,
        <<"k", "r", ".">>, <<>>),
        <<",", "-">>, <<>>),
        <<".">>, <<>>),
        <<",">>, <<".">>),
        <<" ">>, <<>>)

\* Index of the first character at or after p that is not a digit.
ScanDigits(c, p) ==
    LET stop == {q \in p..Len(c) : c[q] \notin Digits}
    IN  IF stop # {} THEN Least(stop)
        ELSE IF p > Len(c) THEN p
        ELSE Len(c) + 1

RECURSIVE DigitsValue(_)
DigitsValue(d) ==
    IF d = <<>> THEN 0
    ELSE 10 * DigitsValue(SubSeq(d, 1, Len(d) - 1)) + DigitVal(d[Len(d)])

\* The ASCII characters float() strips from both ends of its argument: space,
\* tab, line feed, vertical tab, form feed, carriage return.  The chain of
\* replacements has removed " " everywhere.
AsciiSpaces == {" ", "\t", "\n", "", "\f", "\r"}

\* The characters beyond ASCII that float() takes for a space.
UnicodeSpaces ==
    {"U+0085", "U+00A0", "U+1680", "U+2000", "U+2001", "U+2002",
     "U+2003", "U+2004", "U+2005", "U+2006", "U+2007", "U+2008",
     "U+2009", "U+200A", "U+2028", "U+2029", "U+202F", "U+205F",
     "U+3000"}

Whitespace == AsciiSpaces \cup UnicodeSpaces

\* Before it parses, float() writes every decimal digit as its ASCII digit
\* and every space beyond ASCII as " ".
TransformDecimalAndSpaceToASCII(s) ==
    [i \in DOMAIN s |->
        IF s[i] \in Digits THEN DecimalDigits[1][DigitVal(s[i]) + 1]
        ELSE IF s[i] \in UnicodeSpaces THEN " "
        ELSE s[i]]

StripLeft(s) ==
    LET keep == {i \in 1..Len(s) : s[i] \notin Whitespace}
    IN  IF keep = {} THEN <<>> ELSE SubSeq(s, Least(keep), Len(s))

StripRight(s) ==
    LET keep == {i \in 1..Len(s) : s[i] \notin Whitespace}
    IN  IF keep = {} THEN <<>> ELSE SubSeq(s, 1, Greatest(keep))

Strip(s) == StripRight(StripLeft(s))

\* float() accepts an underscore only between two digits.
UnderscoresOk(s) ==
    \A i \in 1..Len(s) :
        s[i] = "_" => /\ i > 1 /\ s[i - 1] \in Digits
                      /\ i < Len(s) /\ s[i + 1] \in Digits

NotUnderscore(c) == c # "_"

\* float() reads "inf", "infinity" and "nan" in either case.
LowerCase(c) ==
    CASE c = "I" -> "i" [] c = "N" -> "n" [] c = "F" -> "f" [] c = "T" -> "t"
      [] c = "Y" -> "y" [] c = "A" -> "a" [] OTHER -> c

InfTexts == {<<"i", "n", "f">>, <<"i", "n", "f", "i", "n", "i", "t", "y">>}

NanText == <<"n", "a", "n">>

\* The digits d without the zeros in front.
StripZeros(d) ==
    LET keep == {i \in 1..Len(d) : d[i] # "0"}
    IN  IF keep = {} THEN <<>> ELSE SubSeq(d, Least(keep), Len(d))

\* The digits d, read as d[1].d[2]d[3]..., are a greater number than the
\* digits ref read the same way.
DigitsAbove(d, ref) ==
    LET at(x, i) == IF i <= Len(x) THEN DigitVal(x[i]) ELSE 0
        n        == IF Len(d) > Len(ref) THEN Len(d) ELSE Len(ref)
    IN  \E k \in 1..n :
            /\ at(d, k) > at(ref, k)
            /\ \A j \in 1..(k - 1) : at(d, j) = at(ref, j)

\* A double, rounded to nearest, ties to even: anything from
\* 2^1024 - 2^970 = InfFrom * 10^308 up is inf, anything up to
\* 2^-1075 = ZeroUpTo * 10^-324 is zero.  InfFrom and ZeroUpTo are all the
\* digits of the two numbers, read as d.ddd...
MaxExp10 == 308

MinExp10 == 0 - 324

InfFrom ==
    <<"1", "7", "9", "7", "6", "9", "3", "1", "3", "4",
      "8", "6", "2", "3", "1", "5", "8", "0", "7", "9",
      "3", "7", "2", "8", "9", "7", "1", "4", "0", "5",
      "3", "0", "3", "4", "1", "5", "0", "7", "9", "9",
      "3", "4", "1", "3", "2", "7", "1", "0", "0", "3",
      "7", "8", "2", "6", "9", "3", "6", "1", "7", "3",
      "7", "7", "8", "9", "8", "0", "4", "4", "4", "9",
      "6", "8", "2", "9", "2", "7", "6", "4", "7", "5",
      "0", "9", "4", "6", "6", "4", "9", "0", "1", "7",
      "9", "7", "7", "5", "8", "7", "2", "0", "7", "0",
      "9", "6", "3", "3", "0", "2", "8", "6", "4", "1",
      "6", "6", "9", "2", "8", "8", "7", "9", "1", "0",
      "9", "4", "6", "5", "5", "5", "5", "4", "7", "8",
      "5", "1", "9", "4", "0", "4", "0", "2", "6", "3",
      "0", "6", "5", "7", "4", "8", "8", "6", "7", "1",
      "5", "0", "5", "8", "2", "0", "6", "8", "1", "9",
      "0", "8", "9", "0", "2", "0", "0", "0", "7", "0",
      "8", "3", "8", "3", "6", "7", "6", "2", "7", "3",
      "8", "5", "4", "8", "4", "5", "8", "1", "7", "7",
      "1", "1", "5", "3", "1", "7", "6", "4", "4", "7",
      "5", "7", "3", "0", "2", "7", "0", "0", "6", "9",
      "8", "5", "5", "5", "7", "1", "3", "6", "6", "9",
      "5", "9", "6", "2", "2", "8", "4", "2", "9", "1",
      "4", "8", "1", "9", "8", "6", "0", "8", "3", "4",
      "9", "3", "6", "4", "7", "5", "2", "9", "2", "7",
      "1", "9", "0", "7", "4", "1", "6", "8", "4", "4",
      "4", "3", "6", "5", "5", "1", "0", "7", "0", "4",
      "3", "4", "2", "7", "1", "1", "5", "5", "9", "6",
      "9", "9", "5", "0", "8", "0", "9", "3", "0", "4",
      "2", "8", "8", "0", "1", "7", "7", "9", "0", "4",
      "1", "7", "4", "4", "9", "7", "7", "9", "2">>

ZeroUpTo ==
    <<"2", "4", "7", "0", "3", "2", "8", "2", "2", "9",
      "2", "0", "6", "2", "3", "2", "7", "2", "0", "8",
      "8", "2", "8", "4", "3", "9", "6", "4", "3", "4",
      "1", "1", "0", "6", "8", "6", "1", "8", "2", "5",
      "2", "9", "9", "0", "1", "3", "0", "7", "1", "6",
      "2", "3", "8", "2", "2", "1", "2", "7", "9", "2",
      "8", "4", "1", "2", "5", "0", "3", "3", "7", "7",
      "5", "3", "6", "3", "5", "1", "0", "4", "3", "7",
      "5", "9", "3", "2", "6", "4", "9", "9", "1", "8",
      "1", "8", "0", "8", "1", "7", "9", "9", "6", "1",
      "8", "9", "8", "9", "8", "2", "8", "2", "3", "4",
      "7", "7", "2", "2", "8", "5", "8", "8", "6", "5",
      "4", "6", "3", "3", "2", "8", "3", "5", "5", "1",
      "7", "7", "9", "6", "9", "8", "9", "8", "1", "9",
      "9", "3", "8", "7", "3", "9", "8", "0", "0", "5",
      "3", "9", "0", "9", "3", "9", "0", "6", "3", "1",
      "5", "0", "3", "5", "6", "5", "9", "5", "1", "5",
      "5", "7", "0", "2", "2", "6", "3", "9", "2", "2",
      "9", "0", "8", "5", "8", "3", "9", "2", "4", "4",
      "9", "1", "0", "5", "1", "8", "4", "4", "3", "5",
      "9", "3", "1", "8", "0", "2", "8", "4", "9", "9",
      "3", "6", "5", "3", "6", "1", "5", "2", "5", "0",
      "0", "3", "1", "9", "3", "7", "0", "4", "5", "7",
      "6", "7", "8", "2", "4", "9", "2", "1", "9", "3",
      "6", "5", "6", "2", "3", "6", "6", "9", "8", "6",
      "3", "6", "5", "8", "4", "8", "0", "7", "5", "7",
      "0", "0", "1", "5", "8", "5", "7", "6", "9", "2",
      "6", "9", "9", "0", "3", "7", "0", "6", "3", "1",
      "1", "9", "2", "8", "2", "7", "9", "5", "5", "8",
      "5", "5", "1", "3", "3", "2", "9", "2", "7", "8",
      "3", "4", "3", "3", "8", "4", "0", "9", "3", "5",
      "1", "9", "7", "8", "0", "1", "5", "5", "3", "1",
      "2", "4", "6", "5", "9", "7", "2", "6", "3", "5",
      "7", "9", "5", "7", "4", "6", "2", "2", "7", "6",
      "6", "4", "6", "5", "2", "7", "2", "8", "2", "7",
      "2", "2", "0", "0", "5", "6", "3", "7", "4", "0",
      "0", "6", "4", "8", "5", "4", "9", "9", "9", "7",
      "7", "0", "9", "6", "5", "9", "9", "4", "7", "0",
      "4", "5", "4", "0", "2", "0", "8", "2", "8", "1",
      "6", "6", "2", "2", "6", "2", "3", "7", "8", "5",
      "7", "3", "9", "3", "4", "5", "0", "7", "3", "6",
      "3", "3", "9", "0", "0", "7", "9", "6", "7", "7",
      "6", "1", "9", "3", "0", "5", "7", "7", "5", "0",
      "6", "7", "4", "0", "1", "7", "6", "3", "2", "4",
      "6", "7", "3", "6", "0", "0", "9", "6", "8", "9",
      "5", "1", "3", "4", "0", "5", "3", "5", "5", "3",
      "7", "4", "5", "8", "5", "1", "6", "6", "6", "1",
      "1", "3", "4", "2", "2", "3", "7", "6", "6", "6",
      "7", "8", "6", "0", "4", "1", "6", "2", "1", "5",
      "9", "6", "8", "0", "4", "6", "1", "9", "1", "4",
      "4", "6", "7", "2", "9", "1", "8", "4", "0", "3",
      "0", "0", "5", "3", "0", "0", "5", "7", "5", "3",
      "0", "8", "4", "9", "0", "4", "8", "7", "6", "5",
      "3", "9", "1", "7", "1", "1", "3", "8", "6", "5",
      "9", "1", "6", "4", "6", "2", "3", "9", "5", "2",
      "4", "9", "1", "2", "6", "2", "3", "6", "5", "3",
      "8", "8", "1", "8", "7", "9", "6", "3", "6", "2",
      "3", "9", "3", "7", "3", "2", "8", "0", "4", "2",
      "3", "8", "9", "1", "0", "1", "8", "6", "7", "2",
      "3", "4", "8", "4", "9", "7", "6", "6", "8", "2",
      "3", "5", "0", "8", "9", "8", "6", "3", "3", "8",
      "8", "5", "8", "7", "9", "2", "5", "6", "2", "8",
      "3", "0", "2", "7", "5", "5", "9", "9", "5", "6",
      "5", "7", "5", "2", "4", "4", "5", "5", "5", "0",
      "7", "2", "5", "5", "1", "8", "9", "3", "1", "3",
      "6", "9", "0", "8", "3", "6", "2", "5", "4", "7",
      "7", "9", "1", "8", "6", "9", "4", "8", "6", "6",
      "7", "9", "9", "4", "9", "6", "8", "3", "2", "4",
      "0", "4", "9", "7", "0", "5", "8", "2", "1", "0",
      "2", "8", "5", "1", "3", "1", "8", "5", "4", "5",
      "1", "3", "9", "6", "2", "1", "3", "8", "3", "7",
      "7", "2", "2", "8", "2", "6", "1", "4", "5", "4",
      "3", "7", "6", "9", "3", "4", "1", "2", "5", "3",
      "2", "0", "9", "8", "5", "9", "1", "3", "2", "7",
      "6", "6", "7", "2", "3", "6", "3", "2", "8", "1",
      "2", "5">>

\* The largest exponent float() counts with; a greater one, or one of more
\* than nine digits after its leading zeros, counts as this one.
MaxAbsExp == 1100000000

\* The most digits float() reads: a number written with more of them, zeros
\* in front not counted, or with more of them after the point, is an error.
MaxDigits == 1000000000

\* The value of an exponent's digits.
ExpValue(d) ==
    LET z == StripZeros(d)
    IN  IF Len(z) > 9 THEN MaxAbsExp
        ELSE IF DigitsValue(z) > MaxAbsExp THEN MaxAbsExp
        ELSE DigitsValue(z)

\* The digits d without the zeros at the end.
StripZerosRight(d) ==
    LET keep == {i \in 1..Len(d) : d[i] # "0"}
    IN  IF keep = {} THEN <<>> ELSE SubSeq(d, 1, Greatest(keep))

\* What float() makes of a text that holds no number: ValueError quoting c.
ParseError(c) ==
    [ok |-> FALSE, kind |-> "error", sign |-> 0, digits |-> <<>>, exp |-> 0,
     msg |-> c]

\* A float.  kind "finite": the value is sign times the integer written by
\* digits (no zero at either end; none at all for zero, whose sign is 0)
\* times 10^exp.  kind "inf": sign tells which.  kind "nan": sign is 0.
Float(kind, sign, digits, exp) ==
    [ok |-> TRUE, kind |-> kind, sign |-> sign, digits |-> digits, exp |-> exp,
     msg |-> <<>>]

\* The float written by sig * 10^exp, sig without zeros in front: rounded to
\* inf or to zero beyond the limits of a double, else the number itself with
\* the sign it was written with.
RoundedFloat(sign, sig, exp) ==
    LET order  == Len(sig) - 1 + exp
        digits == StripZerosRight(sig)
    IN  IF sig = <<>> THEN Float("finite", 0, <<>>, 0)
        ELSE IF \/ order > MaxExp10
                \/ order = MaxExp10 /\ ~DigitsAbove(InfFrom, sig)
        THEN Float("inf", sign, <<>>, 0)
        ELSE IF \/ order < MinExp10
                \/ order = MinExp10 /\ ~DigitsAbove(sig, ZeroUpTo)
        THEN Float("finite", 0, <<>>, 0)
        ELSE Float("finite", sign, digits, exp + (Len(sig) - Len(digits)))

\* The end of the number in t: the digits before and after the point, and the
\* exponent's digits, which end at q1 - 1.  A number has a digit and no more
\* than MaxDigits of them, an exponent has one, and nothing follows the
\* number.
ParseEnd(c, t, sign, intD, fracD, hasExp, eNeg, expD, q1) ==
    IF \/ Len(intD) + Len(fracD) = 0
       \/ Len(StripZeros(intD \o fracD)) > MaxDigits
       \/ Len(fracD) > MaxDigits
       \/ hasExp /\ expD = <<>>
       \/ q1 # Len(t) + 1
    THEN ParseError(c)
    ELSE RoundedFloat(sign, StripZeros(intD \o fracD),
                      (IF eNeg THEN 0 - ExpValue(expD) ELSE ExpValue(expD))
                          - Len(fracD))

\* The exponent, looked for at p2: e, an optional sign, digits from q0 on.
ParseExponent(c, t, sign, intD, fracD, p2) ==
    LET n      == Len(t)
        hasExp == p2 <= n /\ t[p2] \in {"e", "E"}
        eNeg   == hasExp /\ p2 + 1 <= n /\ t[p2 + 1] = "-"
        q0     == IF hasExp /\ p2 + 1 <= n /\ t[p2 + 1] \in {"-", "+"}
                  THEN p2 + 2 ELSE p2 + 1
        q1     == IF hasExp THEN ScanDigits(t, q0) ELSE p2
    IN  ParseEnd(c, t, sign, intD, fracD, hasExp, eNeg,
                 IF hasExp THEN SubSeq(t, q0, q1 - 1) ELSE <<>>, q1)

\* The point, looked for at p1, and the digits after it.
ParseFraction(c, t, sign, intD, p1) ==
    LET hasDot == p1 <= Len(t) /\ t[p1] = "."
        p2     == IF hasDot THEN ScanDigits(t, p1 + 1) ELSE p1
    IN  ParseExponent(c, t, sign, intD,
                      IF hasDot THEN SubSeq(t, p1 + 1, p2 - 1) ELSE <<>>, p2)

\* The digits from p0 on, before the point.
ParseDigits(c, t, sign, p0, p1) ==
    ParseFraction(c, t, sign, SubSeq(t, p0, p1 - 1), p1)

\* The text t, stripped and without underscores: an optional sign, then
\* "inf", "infinity" or "nan", or a number.
ParseSigned(c, t) ==
    LET n    == Len(t)
        sign == IF n >= 1 /\ t[1] = "-" THEN 0 - 1 ELSE 1
        p0   == IF n >= 1 /\ t[1] \in {"-", "+"} THEN 2 ELSE 1
        word == [i \in 1..(n - p0 + 1) |-> LowerCase(t[p0 + i - 1])]
    IN  IF word \in InfTexts THEN Float("inf", sign, <<>>, 0)
        ELSE IF word = NanText THEN Float("nan", 0, <<>>, 0)
        ELSE ParseDigits(c, t, sign, p0, ScanDigits(t, p0))

ParseStripped(c, s) ==
    IF ~UnderscoresOk(s) THEN ParseError(c)
    ELSE ParseSigned(c, SelectSeq(s, NotUnderscore))

\* float(c): digits and spaces are written in ASCII, whitespace is stripped
\* from both ends and underscores between digits are dropped; then an
\* optional sign, and either "inf", "infinity" or "nan", or digits, an
\* optional point, digits (at least one digit in all) and an optional
\* exponent: e, an optional sign, digits.  The error quotes c.
ParseFloat(c) == ParseStripped(c, Strip(TransformDecimalAndSpaceToASCII(c)))

\* Variant of sanitize_price_string: the error carries the text as given.
sanitize_price_string_original(price_string) ==
    LET r == ParseFloat(SanitizeString(price_string))
    IN  IF r.ok THEN r ELSE [r EXCEPT !.msg = price_string]

\* Scraper._sanitize_price_string: the float on success; on failure a
\* ValueError whose message is built from float's own message, which quotes
\* the text float was given.  msg is the text the error carries.
sanitize_price_string(price_string) ==
    ParseFloat(SanitizeString(price_string))


-----------------------------------------------------------------------------
(* The remote API and the provider pages, as seen by the scraper *)

NONE == 0 - 1

\* A call that raises instead of returning a response.
ERR == 0

\* Outcomes of the login and price calls, where 201 and 200 may differ.
Statuses == {ERR, 200, 201, 500}

\* Outcomes of the other calls: raised, 200, or another status.
GetStatuses == {ERR, 200, 500}

AccessTokens == {"t1", "t2"}

\* Token(access_token, token_type); None is the empty tuple.
Token(access_token, token_type) == <<access_token, token_type>>

LoginTokens == {Token(a, "Bearer") : a \in AccessTokens}

\* response.json() of the list call: n entries, each carrying an id.  The ids
\* are those of the API and not the positions in the list: n + 1 down to 2.
ProviderLists == {[i \in 1..n |-> [id |-> n + 2 - i]] : n \in 0..MaxProviders}

\* element.get_text() of the pages: a price above zero written with a
\* no-break space before it and a line break after it, a zero, a negative number, and a text that is no number.
PriceTexts ==
    { <<"U+00A0", "1", "0", ",", "5", "0", " ", "k", "r", ".", "\n">>,
      <<"0", ",", "0", "0", " ", "k", "r", ".">>,
      <<"-", "5">>,
      <<"a", "b", "c">> }

\* What document.select_one finds in a page: no element, or one with a text.
Bodies ==
    {[elem |-> FALSE, text |-> <<>>]}
        \cup {[elem |-> TRUE, text |-> t] : t \in PriceTexts}

-----------------------------------------------------------------------------
(* Decisions taken by the code *)

\* Variant of LoginOk: any 2xx status is taken for a successful login.
LoginOk2xx(status) == status >= 200 /\ status < 300

\* _get_token: response.status == 200
LoginOk(status) == status = 200

\* Variant of SetToken: a token already stored is kept.
SetTokenKeep(old, new) == IF old = <<>> THEN new ELSE old

\* _set_token: the stored token is replaced by the one of the response.
SetToken(old, new) == new

\* _configure_client: "{token_type} {access_token}" of the stored token.
ConfigureClient(tok) == <<tok[2], tok[1]>>

\* Variant of SessionOf: every call is given the unauthenticated session.
SessionOfPlain(kind) == "plain"

\* Variant of SessionOf: the provider's page is fetched without the API's
\* authenticated session.
SessionOfPagePlain(kind) == IF kind \in {"login", "page"} THEN "plain" ELSE "auth"

\* The session each request goes through in run() and below.
SessionOf(kind) == IF kind = "login" THEN "plain" ELSE "auth"

\* The Authorization header a session adds: the plain session has none.
SessionHeader(sess, hdr) == IF sess = "auth" THEN hdr ELSE <<>>

\* Variant of FetchOk: any response at all is taken as the list or record.
FetchOkAnyResponse(status) == status # ERR

\* _fetch_providers and _get_provider: response.status == 200
FetchOk(status) == status = 200

\* _scrape_provider: response.status != 200 skips the provider.
PageOk(status) == status = 200

\* Variant of PriceAccepted: price >= 0
PriceAcceptedNonNegative(price) == price.kind # "nan" /\ price.sign >= 0

\* _scrape_provider: price > 0; nan is not above 0, inf is.
PriceAccepted(price) == price.sign > 0

\* Variant of AddPriceOk: any response at all counts as success.
AddPriceOkAnyResponse(status) == status # ERR

\* _add_price_for_provider: response.status in {200, 201}
AddPriceOk(status) == status \in {200, 201}

\* A request as it leaves the process.
Request(kind, who, hdr) ==
    [kind |-> kind, who |-> who, hdr |-> SessionHeader(SessionOf(kind), hdr)]

Send(bag, kind, who, hdr) == bag (+) SetToBag({Request(kind, who, hdr)})

\* The record GET /providers/{id} answers with in a run.  The API may change
\* a record from one run to the next, so the records of two runs differ.
Record(id, run) == [id |-> id, run |-> run]

\* Variant of RecordFor: the page is fetched with the data of the list entry.
RecordForListed(listed, fetched) == listed

\* The record whose url and html_element _scrape_provider goes by:
\* provider_obj, the one _get_provider has just returned; of the list entry
\* only the id is read.
RecordFor(listed, fetched) == fetched

\* A provider task as gather creates it.  rec is provider_obj, pageOf the
\* record whose url the page request went to.
NewTask(p) ==
    [pc |-> "new", id |-> p.id, getSt |-> NONE, pageSt |-> NONE, seen |-> "none",
     text |-> <<>>, priceSt |-> NONE, putSt |-> NONE, log |-> "none",
     rec |-> <<>>, pageOf |-> <<>>]

Finished(t) == t.pc \in {"done", "raised"}

\* Variant of GatherReturns: gather returns with the first task that returns.
GatherReturnsFirst(ts) == \E i \in DOMAIN ts : ts[i].pc = "done"

\* asyncio.gather(*tasks) returns a result once every task has returned.
GatherReturns(ts) == \A i \in DOMAIN ts : ts[i].pc = "done"

\* Variant of AfterPut: the last_accessed call sits outside the try block.
AfterPutUncaught(st) == IF st = ERR THEN "raised" ELSE "done"

\* Where the task stands after session.put: the call sits inside the try
\* block and its response is not looked at, so the task returns either way.
AfterPut(st) == "done"

\* datetime.now() reads the local wall clock: a reading can be later than,
\* equal to or earlier than the one before it (the clock is set back, summer
\* time ends).  Three times give every order between readings.
ClockReadings == {0, 1, 2}

\* run(): self.run_start = datetime.now()
RunStartTime(old, t) == t

\* datetime.isoformat(): the text that denotes the time t.
IsoFormat(t) == <<"iso", t>>

\* _post_run: the json body of POST /scraping_runs.
RunBody(start, end) ==
    [start_time |-> IsoFormat(start), end_time |-> IsoFormat(end)]

\* main() has ended with the exception: asyncio.run cancels every task that
\* is still pending.
AbortPending(ts) ==
    [i \in DOMAIN ts |->
        IF Finished(ts[i]) THEN ts[i] ELSE [ts[i] EXCEPT !.pc = "aborted"]]


-----------------------------------------------------------------------------
(* Initial state: main() has built Credentials and Scraper (main.py 25-26) *)

NotRun ==
    [ok |-> FALSE, kind |-> "none", sign |-> 0, digits |-> <<>>, exp |-> 0,
     msg |-> <<>>]

InitScraper ==
    /\ mainpc = "start"
    /\ runs = 0
    /\ token = <<>>
    /\ authHdr = <<>>
    /\ sessOpen = FALSE
    /\ providers = <<>>
    /\ tasks = <<>>
    /\ reqs = EmptyBag
    /\ loginSt = NONE
    /\ loginTok = <<>>
    /\ listSt = NONE
    /\ run_start \in ClockReadings
    /\ run_end = NONE
    /\ posted = <<>>
    /\ runInit = NONE

Init ==
    /\ InitScraper
    /\ nin = <<>>
    /\ nout = NotRun

\* An exception is raised into run(): it leaves the two `async with` blocks,
\* which closes both sessions, and travels on through main().  The provider
\* tasks are not touched by this.
Crash ==
    /\ mainpc' = "unwinding"
    /\ sessOpen' = FALSE
    /\ UNCHANGED tasks

-----------------------------------------------------------------------------
(* main() and Scraper.run() *)

\* _post_run up to its request: the clock is read into self.run_end and the
\* body is made from self.run_start and self.run_end.
SendPostRun ==
    /\ \E t \in ClockReadings :
          /\ run_end' = t
          /\ posted' = Append(posted, RunBody(run_start, t))
    /\ reqs' = Send(reqs, "post_run", 0, authHdr)
    /\ UNCHANGED <<run_start, runInit>>

\* main.py 29-31 and run() up to the login request (scraper.py 223-228, 196).
RunStart ==
    /\ mainpc = "start"
    /\ runs < MaxRuns
    /\ runs' = runs + 1
    /\ mainpc' = "login"
    /\ reqs' = Send(EmptyBag, "login", 0, <<>>)
    /\ tasks' = <<>>
    /\ loginSt' = NONE
    /\ loginTok' = <<>>
    /\ listSt' = NONE
    /\ \E t \in ClockReadings :
          /\ run_start' = RunStartTime(run_start, t)
          /\ runInit' = t
    /\ posted' = <<>>
    /\ UNCHANGED <<token, authHdr, sessOpen, providers, run_end, nin, nout>>

\* _get_token resumes with the login response; on 200 the token is stored,
\* the authenticated session is built and the list request leaves.
LoginResp(st, tok) ==
    /\ mainpc = "login"
    /\ loginSt' = st
    /\ IF LoginOk(st)
       THEN /\ loginTok' = tok
            /\ token' = SetToken(token, tok)
            /\ IF token' = <<>>
               THEN /\ Crash
                    /\ UNCHANGED <<authHdr, reqs>>
               ELSE /\ authHdr' = ConfigureClient(token')
                    /\ sessOpen' = TRUE
                    /\ reqs' = Send(reqs, "list", 0, authHdr')
                    /\ mainpc' = "list"
                    /\ UNCHANGED tasks
       ELSE /\ Crash
            /\ UNCHANGED <<loginTok, token, authHdr, reqs>>
    /\ UNCHANGED <<runs, providers, listSt, clock, nin, nout>>

\* _fetch_providers resumes with the list response; on 200 the list is stored
\* and _handle_scraping creates one task per entry and awaits gather.  With
\* no entries gather returns at once and _post_run sends the run timing.
ListResp(st, lst) ==
    /\ mainpc = "list"
    /\ listSt' = st
    /\ IF FetchOk(st)
       THEN /\ providers' = lst
            /\ tasks' = [i \in DOMAIN lst |-> NewTask(lst[i])]
            /\ IF Len(lst) = 0
               THEN /\ mainpc' = "post_run"
                    /\ SendPostRun
               ELSE /\ mainpc' = "gather"
                    /\ UNCHANGED <<reqs, clock>>
            /\ UNCHANGED sessOpen
       ELSE /\ Crash
            /\ UNCHANGED <<providers, reqs, clock>>
    /\ UNCHANGED <<runs, token, authHdr, loginSt, loginTok, nin, nout>>

\* gather returns once every task has returned: _post_run sends the timing.
GatherDone ==
    /\ mainpc = "gather"
    /\ GatherReturns(tasks)
    /\ mainpc' = "post_run"
    /\ SendPostRun
    /\ UNCHANGED <<runs, token, authHdr, sessOpen, providers, tasks,
                   loginSt, loginTok, listSt, nin, nout>>

\* The exception has left main(): asyncio.run cancels the tasks that are
\* still pending and the process ends.
MainEnd ==
    /\ mainpc = "unwinding"
    /\ mainpc' = "crashed"
    /\ tasks' = AbortPending(tasks)
    /\ UNCHANGED <<runs, token, authHdr, sessOpen, providers, reqs,
                   loginSt, loginTok, listSt, clock, nin, nout>>

\* gather (return_exceptions left False) hands the first exception of a task
\* to run() without waiting for the other tasks.
GatherRaise ==
    /\ mainpc = "gather"
    /\ \E i \in DOMAIN tasks : tasks[i].pc = "raised"
    /\ Crash
    /\ UNCHANGED <<runs, token, authHdr, providers, reqs,
                   loginSt, loginTok, listSt, clock, nin, nout>>

\* _post_run resumes: the status is not looked at; both sessions are closed,
\* run() returns and main() goes to sleep.
PostRunResp(st) ==
    /\ mainpc = "post_run"
    /\ IF st = ERR
       THEN Crash
       ELSE /\ mainpc' = "sleep"
            /\ sessOpen' = FALSE
            /\ UNCHANGED tasks
    /\ UNCHANGED <<runs, token, authHdr, providers, reqs,
                   loginSt, loginTok, listSt, clock, nin, nout>>

\* asyncio.sleep(3600) is over: next iteration of while True.
SleepDone ==
    /\ mainpc = "sleep"
    /\ mainpc' = "start"
    /\ UNCHANGED <<runs, token, authHdr, sessOpen, providers, tasks, reqs,
                   loginSt, loginTok, listSt, clock, nin, nout>>


-----------------------------------------------------------------------------
(* Scraper._scrape_provider, one task per entry of self.providers *)

TaskVarsUnchanged ==
    UNCHANGED <<mainpc, runs, token, authHdr, sessOpen, providers,
                loginSt, loginTok, listSt, clock, nin, nout>>

\* Every task has taken its first step.
Started == \A j \in DOMAIN tasks : tasks[j].pc # "new"

\* The event loop resumes a provider task with an answer while run() awaits
\* gather, and goes on doing so while an exception unwinds run() and main():
\* a task whose answer has arrived then takes its step with the session
\* already closed.  No answer is handled before every task has taken its
\* first step: gather schedules them all, and the loop runs what is
\* scheduled before it looks for answers.
TaskRuns == mainpc \in {"gather", "unwinding"} /\ Started

\* First step of the task, taken in the order of the list once run() awaits
\* gather: _get_provider sends GET /providers/{id}.
TaskStart(i) ==
    /\ mainpc = "gather"
    /\ tasks[i].pc = "new"
    /\ \A j \in 1..(i - 1) : tasks[j].pc # "new"
    /\ tasks' = [tasks EXCEPT ![i].pc = "get"]
    /\ reqs' = Send(reqs, "get", i, authHdr)
    /\ TaskVarsUnchanged

\* _get_provider resumes: on 200 the record is built and the page request
\* leaves, or raises out of the task if the session is closed (line 136 is
\* outside the try block); any other answer raises out of the task.
TaskGetResp(i, st) ==
    /\ TaskRuns
    /\ tasks[i].pc = "get"
    /\ IF FetchOk(st) /\ sessOpen
       THEN /\ tasks' = [tasks EXCEPT
                            ![i].pc = "page", ![i].getSt = st,
                            ![i].rec = Record(tasks[i].id, runs),
                            ![i].pageOf = RecordFor(providers[i],
                                                    Record(tasks[i].id, runs))]
            /\ reqs' = Send(reqs, "page", i, authHdr)
       ELSE IF FetchOk(st)
       THEN /\ tasks' = [tasks EXCEPT ![i].pc = "raised", ![i].getSt = st,
                                      ![i].rec = Record(tasks[i].id, runs)]
            /\ UNCHANGED reqs
       ELSE /\ tasks' = [tasks EXCEPT ![i].pc = "raised", ![i].getSt = st]
            /\ UNCHANGED reqs
    /\ TaskVarsUnchanged

\* What the task does with the text of the element it found.  The price
\* request of a closed session raises inside the try block and is caught.
ProcessPrice(i, st, text) ==
    LET price == sanitize_price_string(text)
    IN  IF ~price.ok
        THEN /\ tasks' = [tasks EXCEPT ![i].pc = "done", ![i].pageSt = st,
                                       ![i].seen = "text", ![i].text = text,
                                       ![i].log = "error_processing"]
             /\ UNCHANGED reqs
        ELSE IF PriceAccepted(price) /\ sessOpen
        THEN /\ tasks' = [tasks EXCEPT ![i].pc = "price", ![i].pageSt = st,
                                       ![i].seen = "text", ![i].text = text]
             /\ reqs' = Send(reqs, "price", i, authHdr)
        ELSE IF PriceAccepted(price)
        THEN /\ tasks' = [tasks EXCEPT ![i].pc = "done", ![i].pageSt = st,
                                       ![i].seen = "text", ![i].text = text,
                                       ![i].log = "error_processing"]
             /\ UNCHANGED reqs
        ELSE /\ tasks' = [tasks EXCEPT ![i].pc = "done", ![i].pageSt = st,
                                       ![i].seen = "text", ![i].text = text,
                                       ![i].log = "failed_to_add"]
             /\ UNCHANGED reqs

\* The page response arrives: a raising call leaves the task, a status other
\* than 200 or a page without the element ends it with a log line, otherwise
\* the element's text is normalized and a price above 0 is posted.
TaskPageResp(i, st, body) ==
    /\ TaskRuns
    /\ tasks[i].pc = "page"
    /\ IF st = ERR
       THEN /\ tasks' = [tasks EXCEPT ![i].pc = "raised", ![i].pageSt = st]
            /\ UNCHANGED reqs
       ELSE IF ~PageOk(st)
       THEN /\ tasks' = [tasks EXCEPT ![i].pc = "done", ![i].pageSt = st,
                                      ![i].seen = "non200",
                                      ![i].log = "failed_to_scrape"]
            /\ UNCHANGED reqs
       ELSE IF ~body.elem
       THEN /\ tasks' = [tasks EXCEPT ![i].pc = "done", ![i].pageSt = st,
                                      ![i].seen = "noelem",
                                      ![i].log = "no_price_found"]
            /\ UNCHANGED reqs
       ELSE ProcessPrice(i, st, body.text)
    /\ TaskVarsUnchanged

\* _add_price_for_provider resumes: on 200 or 201 the last_accessed request
\* leaves; a raising call, also that of a closed session for last_accessed,
\* is caught by the except clause.
TaskPriceResp(i, st) ==
    /\ TaskRuns
    /\ tasks[i].pc = "price"
    /\ IF st = ERR
       THEN /\ tasks' = [tasks EXCEPT ![i].pc = "done", ![i].priceSt = st,
                                      ![i].log = "error_processing"]
            /\ UNCHANGED reqs
       ELSE IF AddPriceOk(st) /\ sessOpen
       THEN /\ tasks' = [tasks EXCEPT ![i].pc = "put", ![i].priceSt = st]
            /\ reqs' = Send(reqs, "put", i, authHdr)
       ELSE IF AddPriceOk(st)
       THEN /\ tasks' = [tasks EXCEPT ![i].pc = "done", ![i].priceSt = st,
                                      ![i].log = "error_processing"]
            /\ UNCHANGED reqs
       ELSE /\ tasks' = [tasks EXCEPT ![i].pc = "done", ![i].priceSt = st,
                                      ![i].log = "failed_to_add"]
            /\ UNCHANGED reqs
    /\ TaskVarsUnchanged

\* session.put resumes: its status is not looked at; a raising call is
\* caught by the except clause.
TaskPutResp(i, st) ==
    /\ TaskRuns
    /\ tasks[i].pc = "put"
    /\ tasks' = [tasks EXCEPT ![i].pc = AfterPut(st), ![i].putSt = st,
                              ![i].log = IF st = ERR THEN "error_processing"
                                                     ELSE "price_added"]
    /\ UNCHANGED reqs
    /\ TaskVarsUnchanged

-----------------------------------------------------------------------------
(* Specifications *)

Next ==
    \/ RunStart
    \/ \E st \in Statuses, tok \in LoginTokens : LoginResp(st, tok)
    \/ \E st \in GetStatuses, lst \in ProviderLists : ListResp(st, lst)
    \/ \E i \in DOMAIN tasks : TaskStart(i)
    \/ \E i \in DOMAIN tasks, st \in GetStatuses : TaskGetResp(i, st)
    \/ \E i \in DOMAIN tasks, st \in GetStatuses, body \in Bodies :
            TaskPageResp(i, st, body)
    \/ \E i \in DOMAIN tasks, st \in Statuses : TaskPriceResp(i, st)
    \/ \E i \in DOMAIN tasks, st \in GetStatuses : TaskPutResp(i, st)
    \/ GatherDone
    \/ GatherRaise
    \/ MainEnd
    \/ \E st \in GetStatuses : PostRunResp(st)
    \/ SleepDone

Spec == Init /\ [][Next]_vars

\* The texts the normalizer is tried on: every text of at most MaxLen
\* characters over the alphabet, the texts named in the documentation, and
\* texts for the rest of what float() reads.
Alphabet == {"0", "1", "5", ".", ",", "-", " ", "k", "r", "a"}

ExampleTexts ==
    PriceTexts \cup
    { <<"1", "2", ".", "3", "4", "5", ",", "-", "k", "r", ".">>,
      <<"1", "0", ",", "5", "0", " ", "k", "r", ".">>,
      <<"2", "0", ",", "0", "0", " ", "k", "r", ".">>,
      <<"9", ",", "9", "9", " ", "k", "r", ".">>,
      <<"a", "b", "c", " ", "k", "r", ".">> }

\* Texts that reach the other branches of float(): whitespace at the ends,
\* digits of other scripts, exponents, underscores, inf and nan, and prices
\* of some hundred digits at and beyond the limits of a double.
FloatTexts ==
    { <<"\n", "9", ",", "9", "9", " ", "k", "r", ".", "\n">>,
      <<"1", "2", ",", "5", "\n">>,
      <<"1", "\t", "2">>,
      <<"1", "e", "3">>,
      <<"1", ",", "5", "E", "-", "2">>,
      <<"1", "e">>,
      <<"1", "_", "0", "0", "0">>,
      <<"1", "_">>,
      <<"+", "5">>,
      <<"i", "n", "f">>,
      <<"-", "I", "n", "f", "i", "n", "i", "t", "y">>,
      <<"n", "a", "n">>,
      <<"1", "e", "3", "0", "9">>,
      <<"1", ",", "8", "e", "3", "0", "8">>,
      <<"2", "e", "-", "3", "2", "4">>,
      <<"3", "e", "-", "3", "2", "4">>,
      <<"1", "2", "3", "4", "5", "6", "7", "8", "9", "0", "_", "1", "2">>,
      <<"", "9", ",", "9", "9", " ", "k", "r", ".">>,
      <<"9", ",", "9", "9", " ", "k", "r", ".", "">>,
      <<"", "1", "">>,
      <<"U+00A0", "9", ",", "9", "9">>,
      <<"U+2009", "7", "U+3000">>,
      <<"U+0085", "7", "U+2028">>,
      <<"1", "U+00A0", "2">>,
      <<"", "1">>,
      <<"U+0663">>,
      <<"U+FF15">>,
      <<"U+0661", ",", "U+0665">>,
      <<"U+0660", "U+0663", "_", "U+0664">>,
      <<"1", "e", "U+0662">>,
      <<"U+1D7CE">>,
      <<"1", ",", "7", "9", "7", "6", "9", "3", "1", "3", "4", "8",
        "6", "2", "3", "1", "5", "8", "0", "7", "9", "3", "8", "e",
        "3", "0", "8">>,
      <<"1", ",", "7", "9", "7", "6", "9", "3", "1", "3", "4", "8",
        "6", "2", "3", "1", "5", "8", "0", "7", "9", "3", "e", "3",
        "0", "8">>,
      <<"2", ",", "4", "7", "0", "3", "2", "8", "2", "2", "9", "2",
        "0", "6", "2", "3", "2", "7", "2", "0", "8", "9", "e", "-",
        "3", "2", "4">>,
      <<"2", ",", "4", "7", "0", "3", "2", "8", "2", "2", "9", "2",
        "0", "6", "2", "3", "2", "7", "2", "0", "8", "8", "e", "-",
        "3", "2", "4">>,
      <<"1", ",", "7", "9", "7", "6", "9", "3", "1", "3", "4", "8",
        "6", "2", "3", "1", "5", "8", "0", "7", "9", "3", "7", "2",
        "8", "9", "7", "1", "4", "0", "5", "3", "0", "3", "4", "1",
        "5", "0", "7", "9", "9", "3", "4", "1", "3", "2", "7", "1",
        "0", "0", "3", "7", "8", "2", "6", "9", "3", "6", "1", "7",
        "3", "7", "7", "8", "9", "8", "0", "4", "4", "4", "9", "6",
        "8", "2", "9", "2", "7", "6", "4", "7", "5", "0", "9", "4",
        "6", "6", "4", "9", "0", "1", "7", "9", "7", "7", "5", "8",
        "7", "2", "0", "7", "0", "9", "6", "3", "3", "0", "2", "8",
        "6", "4", "1", "6", "6", "9", "2", "8", "8", "7", "9", "1",
        "0", "9", "4", "6", "5", "5", "5", "5", "4", "7", "8", "5",
        "1", "9", "4", "0", "4", "0", "2", "6", "3", "0", "6", "5",
        "7", "4", "8", "8", "6", "7", "1", "5", "0", "5", "8", "2",
        "0", "6", "8", "1", "9", "0", "8", "9", "0", "2", "0", "0",
        "0", "7", "0", "8", "3", "8", "3", "6", "7", "6", "2", "7",
        "3", "8", "5", "4", "8", "4", "5", "8", "1", "7", "7", "1",
        "1", "5", "3", "1", "7", "6", "4", "4", "7", "5", "7", "3",
        "0", "2", "7", "0", "0", "6", "9", "8", "5", "5", "5", "7",
        "1", "3", "6", "6", "9", "5", "9", "6", "2", "2", "8", "4",
        "2", "9", "1", "4", "8", "1", "9", "8", "6", "0", "8", "3",
        "4", "9", "3", "6", "4", "7", "5", "2", "9", "2", "7", "1",
        "9", "0", "7", "4", "1", "6", "8", "4", "4", "4", "3", "6",
        "5", "5", "1", "0", "7", "0", "4", "3", "4", "2", "7", "1",
        "1", "5", "5", "9", "6", "9", "9", "5", "0", "8", "0", "9",
        "3", "0", "4", "2", "8", "8", "0", "1", "7", "7", "9", "0",
        "4", "1", "7", "4", "4", "9", "7", "7", "9", "2", "e", "3",
        "0", "8">>,
      <<"2", ",", "4", "7", "0", "3", "2", "8", "2", "2", "9", "2",
        "0", "6", "2", "3", "2", "7", "2", "0", "8", "8", "2", "8",
        "4", "3", "9", "6", "4", "3", "4", "1", "1", "0", "6", "8",
        "6", "1", "8", "2", "5", "2", "9", "9", "0", "1", "3", "0",
        "7", "1", "6", "2", "3", "8", "2", "2", "1", "2", "7", "9",
        "2", "8", "4", "1", "2", "5", "0", "3", "3", "7", "7", "5",
        "3", "6", "3", "5", "1", "0", "4", "3", "7", "5", "9", "3",
        "2", "6", "4", "9", "9", "1", "8", "1", "8", "0", "8", "1",
        "7", "9", "9", "6", "1", "8", "9", "8", "9", "8", "2", "8",
        "2", "3", "4", "7", "7", "2", "2", "8", "5", "8", "8", "6",
        "5", "4", "6", "3", "3", "2", "8", "3", "5", "5", "1", "7",
        "7", "9", "6", "9", "8", "9", "8", "1", "9", "9", "3", "8",
        "7", "3", "9", "8", "0", "0", "5", "3", "9", "0", "9", "3",
        "9", "0", "6", "3", "1", "5", "0", "3", "5", "6", "5", "9",
        "5", "1", "5", "5", "7", "0", "2", "2", "6", "3", "9", "2",
        "2", "9", "0", "8", "5", "8", "3", "9", "2", "4", "4", "9",
        "1", "0", "5", "1", "8", "4", "4", "3", "5", "9", "3", "1",
        "8", "0", "2", "8", "4", "9", "9", "3", "6", "5", "3", "6",
        "1", "5", "2", "5", "0", "0", "3", "1", "9", "3", "7", "0",
        "4", "5", "7", "6", "7", "8", "2", "4", "9", "2", "1", "9",
        "3", "6", "5", "6", "2", "3", "6", "6", "9", "8", "6", "3",
        "6", "5", "8", "4", "8", "0", "7", "5", "7", "0", "0", "1",
        "5", "8", "5", "7", "6", "9", "2", "6", "9", "9", "0", "3",
        "7", "0", "6", "3", "1", "1", "9", "2", "8", "2", "7", "9",
        "5", "5", "8", "5", "5", "1", "3", "3", "2", "9", "2", "7",
        "8", "3", "4", "3", "3", "8", "4", "0", "9", "3", "5", "1",
        "9", "7", "8", "0", "1", "5", "5", "3", "1", "2", "4", "6",
        "5", "9", "7", "2", "6", "3", "5", "7", "9", "5", "7", "4",
        "6", "2", "2", "7", "6", "6", "4", "6", "5", "2", "7", "2",
        "8", "2", "7", "2", "2", "0", "0", "5", "6", "3", "7", "4",
        "0", "0", "6", "4", "8", "5", "4", "9", "9", "9", "7", "7",
        "0", "9", "6", "5", "9", "9", "4", "7", "0", "4", "5", "4",
        "0", "2", "0", "8", "2", "8", "1", "6", "6", "2", "2", "6",
        "2", "3", "7", "8", "5", "7", "3", "9", "3", "4", "5", "0",
        "7", "3", "6", "3", "3", "9", "0", "0", "7", "9", "6", "7",
        "7", "6", "1", "9", "3", "0", "5", "7", "7", "5", "0", "6",
        "7", "4", "0", "1", "7", "6", "3", "2", "4", "6", "7", "3",
        "6", "0", "0", "9", "6", "8", "9", "5", "1", "3", "4", "0",
        "5", "3", "5", "5", "3", "7", "4", "5", "8", "5", "1", "6",
        "6", "6", "1", "1", "3", "4", "2", "2", "3", "7", "6", "6",
        "6", "7", "8", "6", "0", "4", "1", "6", "2", "1", "5", "9",
        "6", "8", "0", "4", "6", "1", "9", "1", "4", "4", "6", "7",
        "2", "9", "1", "8", "4", "0", "3", "0", "0", "5", "3", "0",
        "0", "5", "7", "5", "3", "0", "8", "4", "9", "0", "4", "8",
        "7", "6", "5", "3", "9", "1", "7", "1", "1", "3", "8", "6",
        "5", "9", "1", "6", "4", "6", "2", "3", "9", "5", "2", "4",
        "9", "1", "2", "6", "2", "3", "6", "5", "3", "8", "8", "1",
        "8", "7", "9", "6", "3", "6", "2", "3", "9", "3", "7", "3",
        "2", "8", "0", "4", "2", "3", "8", "9", "1", "0", "1", "8",
        "6", "7", "2", "3", "4", "8", "4", "9", "7", "6", "6", "8",
        "2", "3", "5", "0", "8", "9", "8", "6", "3", "3", "8", "8",
        "5", "8", "7", "9", "2", "5", "6", "2", "8", "3", "0", "2",
        "7", "5", "5", "9", "9", "5", "6", "5", "7", "5", "2", "4",
        "4", "5", "5", "5", "0", "7", "2", "5", "5", "1", "8", "9",
        "3", "1", "3", "6", "9", "0", "8", "3", "6", "2", "5", "4",
        "7", "7", "9", "1", "8", "6", "9", "4", "8", "6", "6", "7",
        "9", "9", "4", "9", "6", "8", "3", "2", "4", "0", "4", "9",
        "7", "0", "5", "8", "2", "1", "0", "2", "8", "5", "1", "3",
        "1", "8", "5", "4", "5", "1", "3", "9", "6", "2", "1", "3",
        "8", "3", "7", "7", "2", "2", "8", "2", "6", "1", "4", "5",
        "4", "3", "7", "6", "9", "3", "4", "1", "2", "5", "3", "2",
        "0", "9", "8", "5", "9", "1", "3", "2", "7", "6", "6", "7",
        "2", "3", "6", "3", "2", "8", "1", "2", "5", "e", "-", "3",
        "2", "4">>,
      <<"2", ",", "4", "7", "0", "3", "2", "8", "2", "2", "9", "2",
        "0", "6", "2", "3", "2", "7", "2", "0", "8", "8", "2", "8",
        "4", "3", "9", "6", "4", "3", "4", "1", "1", "0", "6", "8",
        "6", "1", "8", "2", "5", "2", "9", "9", "0", "1", "3", "0",
        "7", "1", "6", "2", "3", "8", "2", "2", "1", "2", "7", "9",
        "2", "8", "4", "1", "2", "5", "0", "3", "3", "7", "7", "5",
        "3", "6", "3", "5", "1", "0", "4", "3", "7", "5", "9", "3",
        "2", "6", "4", "9", "9", "1", "8", "1", "8", "0", "8", "1",
        "7", "9", "9", "6", "1", "8", "9", "8", "9", "8", "2", "8",
        "2", "3", "4", "7", "7", "2", "2", "8", "5", "8", "8", "6",
        "5", "4", "6", "3", "3", "2", "8", "3", "5", "5", "1", "7",
        "7", "9", "6", "9", "8", "9", "8", "1", "9", "9", "3", "8",
        "7", "3", "9", "8", "0", "0", "5", "3", "9", "0", "9", "3",
        "9", "0", "6", "3", "1", "5", "0", "3", "5", "6", "5", "9",
        "5", "1", "5", "5", "7", "0", "2", "2", "6", "3", "9", "2",
        "2", "9", "0", "8", "5", "8", "3", "9", "2", "4", "4", "9",
        "1", "0", "5", "1", "8", "4", "4", "3", "5", "9", "3", "1",
        "8", "0", "2", "8", "4", "9", "9", "3", "6", "5", "3", "6",
        "1", "5", "2", "5", "0", "0", "3", "1", "9", "3", "7", "0",
        "4", "5", "7", "6", "7", "8", "2", "4", "9", "2", "1", "9",
        "3", "6", "5", "6", "2", "3", "6", "6", "9", "8", "6", "3",
        "6", "5", "8", "4", "8", "0", "7", "5", "7", "0", "0", "1",
        "5", "8", "5", "7", "6", "9", "2", "6", "9", "9", "0", "3",
        "7", "0", "6", "3", "1", "1", "9", "2", "8", "2", "7", "9",
        "5", "5", "8", "5", "5", "1", "3", "3", "2", "9", "2", "7",
        "8", "3", "4", "3", "3", "8", "4", "0", "9", "3", "5", "1",
        "9", "7", "8", "0", "1", "5", "5", "3", "1", "2", "4", "6",
        "5", "9", "7", "2", "6", "3", "5", "7", "9", "5", "7", "4",
        "6", "2", "2", "7", "6", "6", "4", "6", "5", "2", "7", "2",
        "8", "2", "7", "2", "2", "0", "0", "5", "6", "3", "7", "4",
        "0", "0", "6", "4", "8", "5", "4", "9", "9", "9", "7", "7",
        "0", "9", "6", "5", "9", "9", "4", "7", "0", "4", "5", "4",
        "0", "2", "0", "8", "2", "8", "1", "6", "6", "2", "2", "6",
        "2", "3", "7", "8", "5", "7", "3", "9", "3", "4", "5", "0",
        "7", "3", "6", "3", "3", "9", "0", "0", "7", "9", "6", "7",
        "7", "6", "1", "9", "3", "0", "5", "7", "7", "5", "0", "6",
        "7", "4", "0", "1", "7", "6", "3", "2", "4", "6", "7", "3",
        "6", "0", "0", "9", "6", "8", "9", "5", "1", "3", "4", "0",
        "5", "3", "5", "5", "3", "7", "4", "5", "8", "5", "1", "6",
        "6", "6", "1", "1", "3", "4", "2", "2", "3", "7", "6", "6",
        "6", "7", "8", "6", "0", "4", "1", "6", "2", "1", "5", "9",
        "6", "8", "0", "4", "6", "1", "9", "1", "4", "4", "6", "7",
        "2", "9", "1", "8", "4", "0", "3", "0", "0", "5", "3", "0",
        "0", "5", "7", "5", "3", "0", "8", "4", "9", "0", "4", "8",
        "7", "6", "5", "3", "9", "1", "7", "1", "1", "3", "8", "6",
        "5", "9", "1", "6", "4", "6", "2", "3", "9", "5", "2", "4",
        "9", "1", "2", "6", "2", "3", "6", "5", "3", "8", "8", "1",
        "8", "7", "9", "6", "3", "6", "2", "3", "9", "3", "7", "3",
        "2", "8", "0", "4", "2", "3", "8", "9", "1", "0", "1", "8",
        "6", "7", "2", "3", "4", "8", "4", "9", "7", "6", "6", "8",
        "2", "3", "5", "0", "8", "9", "8", "6", "3", "3", "8", "8",
        "5", "8", "7", "9", "2", "5", "6", "2", "8", "3", "0", "2",
        "7", "5", "5", "9", "9", "5", "6", "5", "7", "5", "2", "4",
        "4", "5", "5", "5", "0", "7", "2", "5", "5", "1", "8", "9",
        "3", "1", "3", "6", "9", "0", "8", "3", "6", "2", "5", "4",
        "7", "7", "9", "1", "8", "6", "9", "4", "8", "6", "6", "7",
        "9", "9", "4", "9", "6", "8", "3", "2", "4", "0", "4", "9",
        "7", "0", "5", "8", "2", "1", "0", "2", "8", "5", "1", "3",
        "1", "8", "5", "4", "5", "1", "3", "9", "6", "2", "1", "3",
        "8", "3", "7", "7", "2", "2", "8", "2", "6", "1", "4", "5",
        "4", "3", "7", "6", "9", "3", "4", "1", "2", "5", "3", "2",
        "0", "9", "8", "5", "9", "1", "3", "2", "7", "6", "6", "7",
        "2", "3", "6", "3", "2", "8", "1", "2", "5", "1", "e", "-",
        "3", "2", "4">>,
      <<"1", "e", "1", "1", "0", "0", "0", "0", "0", "0", "0", "0">>,
      <<"1", "e", "-", "9", "9", "9", "9", "9", "9", "9", "9", "9">>,
      <<"0", ",", "0", "0", "0", "0", "0", "0", "0", "0", "0", "0", "0", "0", "1", "e", "1", "3">>,
      <<"1", "e", "0", "0", "0", "0", "0", "0", "0", "0", "0", "2">>,
      <<"1", "0", "0", "0", "0", "0", "0", "0", "0", "0", "0", "0",
        "0", "0", "0", "0", "0", "0", "0", "0", "0", "0", "0", "0",
        "0", "0", "0", "0", "0", "0", "0", "0", "0", "0", "0", "0",
        "0", "0", "0", "0", "0", "0", "0", "0", "0", "0", "0", "0",
        "0", "0", "0", "0", "0", "0", "0", "0", "0", "0", "0", "0",
        "0", "0", "0", "0", "0", "0", "0", "0", "0", "0", "0", "0",
        "0", "0", "0", "0", "0", "0", "0", "0", "0", "0", "0", "0",
        "0", "0", "0", "0", "0", "0", "0", "0", "0", "0", "0", "0",
        "0", "0", "0", "0", "0", "0", "0", "0", "0", "0", "0", "0",
        "0", "0", "0", "0", "0", "0", "0", "0", "0", "0", "0", "0",
        "0", "0", "0", "0", "0", "0", "0", "0", "0", "0", "0", "0",
        "0", "0", "0", "0", "0", "0", "0", "0", "0", "0", "0", "0",
        "0", "0", "0", "0", "0", "0", "0", "0", "0", "0", "0", "0",
        "0", "0", "0", "0", "0", "0", "0", "0", "0", "0", "0", "0",
        "0", "0", "0", "0", "0", "0", "0", "0", "0", "0", "0", "0",
        "0", "0", "0", "0", "0", "0", "0", "0", "0", "0", "0", "0",
        "0", "0", "0", "0", "0", "0", "0", "0", "0", "0", "0", "0",
        "0", "0", "0", "0", "0", "0", "0", "0", "0", "0", "0", "0",
        "0", "0", "0", "0", "0", "0", "0", "0", "0", "0", "0", "0",
        "0", "0", "0", "0", "0", "0", "0", "0", "0", "0", "0", "0",
        "0", "0", "0", "0", "0", "0", "0", "0", "0", "0", "0", "0",
        "0", "0", "0", "0", "0", "0", "0", "0", "0", "0", "0", "0",
        "0", "0", "0", "0", "0", "0", "0", "0", "0", "0", "0", "0",
        "0", "0", "0", "0", "0", "0", "0", "0", "0", "0", "0", "0",
        "0", "0", "0", "0", "0", "0", "0", "0", "0", "0", "0", "0",
        "0", "0", "0", "0", "0", "0", "0", "0", "0", "0", " ", "k",
        "r", ".">>,
      <<"1", "0", "0", "0", "0", "0", "0", "0", "0", "0", "0", "0",
        "0", "0", "0", "0", "0", "0", "0", "0", "0", "0", "0", "0",
        "0", "0", "0", "0", "0", "0", "0", "0", "0", "0", "0", "0",
        "0", "0", "0", "0", "0", "0", "0", "0", "0", "0", "0", "0",
        "0", "0", "0", "0", "0", "0", "0", "0", "0", "0", "0", "0",
        "0", "0", "0", "0", "0", "0", "0", "0", "0", "0", "0", "0",
        "0", "0", "0", "0", "0", "0", "0", "0", "0", "0", "0", "0",
        "0", "0", "0", "0", "0", "0", "0", "0", "0", "0", "0", "0",
        "0", "0", "0", "0", "0", "0", "0", "0", "0", "0", "0", "0",
        "0", "0", "0", "0", "0", "0", "0", "0", "0", "0", "0", "0",
        "0", "0", "0", "0", "0", "0", "0", "0", "0", "0", "0", "0",
        "0", "0", "0", "0", "0", "0", "0", "0", "0", "0", "0", "0",
        "0", "0", "0", "0", "0", "0", "0", "0", "0", "0", "0", "0",
        "0", "0", "0", "0", "0", "0", "0", "0", "0", "0", "0", "0",
        "0", "0", "0", "0", "0", "0", "0", "0", "0", "0", "0", "0",
        "0", "0", "0", "0", "0", "0", "0", "0", "0", "0", "0", "0",
        "0", "0", "0", "0", "0", "0", "0", "0", "0", "0", "0", "0",
        "0", "0", "0", "0", "0", "0", "0", "0", "0", "0", "0", "0",
        "0", "0", "0", "0", "0", "0", "0", "0", "0", "0", "0", "0",
        "0", "0", "0", "0", "0", "0", "0", "0", "0", "0", "0", "0",
        "0", "0", "0", "0", "0", "0", "0", "0", "0", "0", "0", "0",
        "0", "0", "0", "0", "0", "0", "0", "0", "0", "0", "0", "0",
        "0", "0", "0", "0", "0", "0", "0", "0", "0", "0", "0", "0",
        "0", "0", "0", "0", "0", "0", "0", "0", "0", "0", "0", "0",
        "0", "0", "0", "0", "0", "0", "0", "0", "0", "0", "0", "0",
        "0", "0", "0", "0", "0", "0", "0", "0", "0">>,
      <<"-", "1", "0", "0", "0", "0", "0", "0", "0", "0", "0", "0",
        "0", "0", "0", "0", "0", "0", "0", "0", "0", "0", "0", "0",
        "0", "0", "0", "0", "0", "0", "0", "0", "0", "0", "0", "0",
        "0", "0", "0", "0", "0", "0", "0", "0", "0", "0", "0", "0",
        "0", "0", "0", "0", "0", "0", "0", "0", "0", "0", "0", "0",
        "0", "0", "0", "0", "0", "0", "0", "0", "0", "0", "0", "0",
        "0", "0", "0", "0", "0", "0", "0", "0", "0", "0", "0", "0",
        "0", "0", "0", "0", "0", "0", "0", "0", "0", "0", "0", "0",
        "0", "0", "0", "0", "0", "0", "0", "0", "0", "0", "0", "0",
        "0", "0", "0", "0", "0", "0", "0", "0", "0", "0", "0", "0",
        "0", "0", "0", "0", "0", "0", "0", "0", "0", "0", "0", "0",
        "0", "0", "0", "0", "0", "0", "0", "0", "0", "0", "0", "0",
        "0", "0", "0", "0", "0", "0", "0", "0", "0", "0", "0", "0",
        "0", "0", "0", "0", "0", "0", "0", "0", "0", "0", "0", "0",
        "0", "0", "0", "0", "0", "0", "0", "0", "0", "0", "0", "0",
        "0", "0", "0", "0", "0", "0", "0", "0", "0", "0", "0", "0",
        "0", "0", "0", "0", "0", "0", "0", "0", "0", "0", "0", "0",
        "0", "0", "0", "0", "0", "0", "0", "0", "0", "0", "0", "0",
        "0", "0", "0", "0", "0", "0", "0", "0", "0", "0", "0", "0",
        "0", "0", "0", "0", "0", "0", "0", "0", "0", "0", "0", "0",
        "0", "0", "0", "0", "0", "0", "0", "0", "0", "0", "0", "0",
        "0", "0", "0", "0", "0", "0", "0", "0", "0", "0", "0", "0",
        "0", "0", "0", "0", "0", "0", "0", "0", "0", "0", "0", "0",
        "0", "0", "0", "0", "0", "0", "0", "0", "0", "0", "0", "0",
        "0", "0", "0", "0", "0", "0", "0", "0", "0", "0", "0", "0",
        "0", "0", "0", "0", "0", "0", "0", "0", "0", "0", "0">>,
      <<"1", "7", "9", "7", "6", "9", "3", "1", "3", "4", "8", "6",
        "2", "3", "1", "5", "8", "0", "7", "9", "3", "7", "2", "8",
        "9", "7", "1", "4", "0", "5", "3", "0", "3", "4", "1", "5",
        "0", "7", "9", "9", "3", "4", "1", "3", "2", "7", "1", "0",
        "0", "3", "7", "8", "2", "6", "9", "3", "6", "1", "7", "3",
        "7", "7", "8", "9", "8", "0", "4", "4", "4", "9", "6", "8",
        "2", "9", "2", "7", "6", "4", "7", "5", "0", "9", "4", "6",
        "6", "4", "9", "0", "1", "7", "9", "7", "7", "5", "8", "7",
        "2", "0", "7", "0", "9", "6", "3", "3", "0", "2", "8", "6",
        "4", "1", "6", "6", "9", "2", "8", "8", "7", "9", "1", "0",
        "9", "4", "6", "5", "5", "5", "5", "4", "7", "8", "5", "1",
        "9", "4", "0", "4", "0", "2", "6", "3", "0", "6", "5", "7",
        "4", "8", "8", "6", "7", "1", "5", "0", "5", "8", "2", "0",
        "6", "8", "1", "9", "0", "8", "9", "0", "2", "0", "0", "0",
        "7", "0", "8", "3", "8", "3", "6", "7", "6", "2", "7", "3",
        "8", "5", "4", "8", "4", "5", "8", "1", "7", "7", "1", "1",
        "5", "3", "1", "7", "6", "4", "4", "7", "5", "7", "3", "0",
        "2", "7", "0", "0", "6", "9", "8", "5", "5", "5", "7", "1",
        "3", "6", "6", "9", "5", "9", "6", "2", "2", "8", "4", "2",
        "9", "1", "4", "8", "1", "9", "8", "6", "0", "8", "3", "4",
        "9", "3", "6", "4", "7", "5", "2", "9", "2", "7", "1", "9",
        "0", "7", "4", "1", "6", "8", "4", "4", "4", "3", "6", "5",
        "5", "1", "0", "7", "0", "4", "3", "4", "2", "7", "1", "1",
        "5", "5", "9", "6", "9", "9", "5", "0", "8", "0", "9", "3",
        "0", "4", "2", "8", "8", "0", "1", "7", "7", "9", "0", "4",
        "1", "7", "4", "4", "9", "7", "7", "9", "2">>,
      <<"1", "7", "9", "7", "6", "9", "3", "1", "3", "4", "8", "6",
        "2", "3", "1", "5", "8", "0", "7", "9", "3", "7", "2", "8",
        "9", "7", "1", "4", "0", "5", "3", "0", "3", "4", "1", "5",
        "0", "7", "9", "9", "3", "4", "1", "3", "2", "7", "1", "0",
        "0", "3", "7", "8", "2", "6", "9", "3", "6", "1", "7", "3",
        "7", "7", "8", "9", "8", "0", "4", "4", "4", "9", "6", "8",
        "2", "9", "2", "7", "6", "4", "7", "5", "0", "9", "4", "6",
        "6", "4", "9", "0", "1", "7", "9", "7", "7", "5", "8", "7",
        "2", "0", "7", "0", "9", "6", "3", "3", "0", "2", "8", "6",
        "4", "1", "6", "6", "9", "2", "8", "8", "7", "9", "1", "0",
        "9", "4", "6", "5", "5", "5", "5", "4", "7", "8", "5", "1",
        "9", "4", "0", "4", "0", "2", "6", "3", "0", "6", "5", "7",
        "4", "8", "8", "6", "7", "1", "5", "0", "5", "8", "2", "0",
        "6", "8", "1", "9", "0", "8", "9", "0", "2", "0", "0", "0",
        "7", "0", "8", "3", "8", "3", "6", "7", "6", "2", "7", "3",
        "8", "5", "4", "8", "4", "5", "8", "1", "7", "7", "1", "1",
        "5", "3", "1", "7", "6", "4", "4", "7", "5", "7", "3", "0",
        "2", "7", "0", "0", "6", "9", "8", "5", "5", "5", "7", "1",
        "3", "6", "6", "9", "5", "9", "6", "2", "2", "8", "4", "2",
        "9", "1", "4", "8", "1", "9", "8", "6", "0", "8", "3", "4",
        "9", "3", "6", "4", "7", "5", "2", "9", "2", "7", "1", "9",
        "0", "7", "4", "1", "6", "8", "4", "4", "4", "3", "6", "5",
        "5", "1", "0", "7", "0", "4", "3", "4", "2", "7", "1", "1",
        "5", "5", "9", "6", "9", "9", "5", "0", "8", "0", "9", "3",
        "0", "4", "2", "8", "8", "0", "1", "7", "7", "9", "0", "4",
        "1", "7", "4", "4", "9", "7", "7", "9", "1">>,
      <<"0", ",", "0", "0", "0", "0", "0", "0", "0", "0", "0", "0",
        "0", "0", "0", "0", "0", "0", "0", "0", "0", "0", "0", "0",
        "0", "0", "0", "0", "0", "0", "0", "0", "0", "0", "0", "0",
        "0", "0", "0", "0", "0", "0", "0", "0", "0", "0", "0", "0",
        "0", "0", "0", "0", "0", "0", "0", "0", "0", "0", "0", "0",
        "0", "0", "0", "0", "0", "0", "0", "0", "0", "0", "0", "0",
        "0", "0", "0", "0", "0", "0", "0", "0", "0", "0", "0", "0",
        "0", "0", "0", "0", "0", "0", "0", "0", "0", "0", "0", "0",
        "0", "0", "0", "0", "0", "0", "0", "0", "0", "0", "0", "0",
        "0", "0", "0", "0", "0", "0", "0", "0", "0", "0", "0", "0",
        "0", "0", "0", "0", "0", "0", "0", "0", "0", "0", "0", "0",
        "0", "0", "0", "0", "0", "0", "0", "0", "0", "0", "0", "0",
        "0", "0", "0", "0", "0", "0", "0", "0", "0", "0", "0", "0",
        "0", "0", "0", "0", "0", "0", "0", "0", "0", "0", "0", "0",
        "0", "0", "0", "0", "0", "0", "0", "0", "0", "0", "0", "0",
        "0", "0", "0", "0", "0", "0", "0", "0", "0", "0", "0", "0",
        "0", "0", "0", "0", "0", "0", "0", "0", "0", "0", "0", "0",
        "0", "0", "0", "0", "0", "0", "0", "0", "0", "0", "0", "0",
        "0", "0", "0", "0", "0", "0", "0", "0", "0", "0", "0", "0",
        "0", "0", "0", "0", "0", "0", "0", "0", "0", "0", "0", "0",
        "0", "0", "0", "0", "0", "0", "0", "0", "0", "0", "0", "0",
        "0", "0", "0", "0", "0", "0", "0", "0", "0", "0", "0", "0",
        "0", "0", "0", "0", "0", "0", "0", "0", "0", "0", "0", "0",
        "0", "0", "0", "0", "0", "0", "0", "0", "0", "0", "0", "0",
        "0", "0", "0", "0", "0", "0", "0", "0", "0", "0", "0", "0",
        "0", "0", "0", "0", "0", "0", "0", "0", "0", "0", "0", "0",
        "0", "0", "0", "0", "0", "0", "0", "0", "0", "0", "0", "0",
        "0", "2", "4", "7", "0", "3", "2", "8", "2", "2", "9", "2",
        "0", "6", "2", "3", "2", "7", "2", "0", "8", "8", "2", "8",
        "4", "3", "9", "6", "4", "3", "4", "1", "1", "0", "6", "8",
        "6", "1", "8", "2", "5", "2", "9", "9", "0", "1", "3", "0",
        "7", "1", "6", "2", "3", "8", "2", "2", "1", "2", "7", "9",
        "2", "8", "4", "1", "2", "5", "0", "3", "3", "7", "7", "5",
        "3", "6", "3", "5", "1", "0", "4", "3", "7", "5", "9", "3",
        "2", "6", "4", "9", "9", "1", "8", "1", "8", "0", "8", "1",
        "7", "9", "9", "6", "1", "8", "9", "8", "9", "8", "2", "8",
        "2", "3", "4", "7", "7", "2", "2", "8", "5", "8", "8", "6",
        "5", "4", "6", "3", "3", "2", "8", "3", "5", "5", "1", "7",
        "7", "9", "6", "9", "8", "9", "8", "1", "9", "9", "3", "8",
        "7", "3", "9", "8", "0", "0", "5", "3", "9", "0", "9", "3",
        "9", "0", "6", "3", "1", "5", "0", "3", "5", "6", "5", "9",
        "5", "1", "5", "5", "7", "0", "2", "2", "6", "3", "9", "2",
        "2", "9", "0", "8", "5", "8", "3", "9", "2", "4", "4", "9",
        "1", "0", "5", "1", "8", "4", "4", "3", "5", "9", "3", "1",
        "8", "0", "2", "8", "4", "9", "9", "3", "6", "5", "3", "6",
        "1", "5", "2", "5", "0", "0", "3", "1", "9", "3", "7", "0",
        "4", "5", "7", "6", "7", "8", "2", "4", "9", "2", "1", "9",
        "3", "6", "5", "6", "2", "3", "6", "6", "9", "8", "6", "3",
        "6", "5", "8", "4", "8", "0", "7", "5", "7", "0", "0", "1",
        "5", "8", "5", "7", "6", "9", "2", "6", "9", "9", "0", "3",
        "7", "0", "6", "3", "1", "1", "9", "2", "8", "2", "7", "9",
        "5", "5", "8", "5", "5", "1", "3", "3", "2", "9", "2", "7",
        "8", "3", "4", "3", "3", "8", "4", "0", "9", "3", "5", "1",
        "9", "7", "8", "0", "1", "5", "5", "3", "1", "2", "4", "6",
        "5", "9", "7", "2", "6", "3", "5", "7", "9", "5", "7", "4",
        "6", "2", "2", "7", "6", "6", "4", "6", "5", "2", "7", "2",
        "8", "2", "7", "2", "2", "0", "0", "5", "6", "3", "7", "4",
        "0", "0", "6", "4", "8", "5", "4", "9", "9", "9", "7", "7",
        "0", "9", "6", "5", "9", "9", "4", "7", "0", "4", "5", "4",
        "0", "2", "0", "8", "2", "8", "1", "6", "6", "2", "2", "6",
        "2", "3", "7", "8", "5", "7", "3", "9", "3", "4", "5", "0",
        "7", "3", "6", "3", "3", "9", "0", "0", "7", "9", "6", "7",
        "7", "6", "1", "9", "3", "0", "5", "7", "7", "5", "0", "6",
        "7", "4", "0", "1", "7", "6", "3", "2", "4", "6", "7", "3",
        "6", "0", "0", "9", "6", "8", "9", "5", "1", "3", "4", "0",
        "5", "3", "5", "5", "3", "7", "4", "5", "8", "5", "1", "6",
        "6", "6", "1", "1", "3", "4", "2", "2", "3", "7", "6", "6",
        "6", "7", "8", "6", "0", "4", "1", "6", "2", "1", "5", "9",
        "6", "8", "0", "4", "6", "1", "9", "1", "4", "4", "6", "7",
        "2", "9", "1", "8", "4", "0", "3", "0", "0", "5", "3", "0",
        "0", "5", "7", "5", "3", "0", "8", "4", "9", "0", "4", "8",
        "7", "6", "5", "3", "9", "1", "7", "1", "1", "3", "8", "6",
        "5", "9", "1", "6", "4", "6", "2", "3", "9", "5", "2", "4",
        "9", "1", "2", "6", "2", "3", "6", "5", "3", "8", "8", "1",
        "8", "7", "9", "6", "3", "6", "2", "3", "9", "3", "7", "3",
        "2", "8", "0", "4", "2", "3", "8", "9", "1", "0", "1", "8",
        "6", "7", "2", "3", "4", "8", "4", "9", "7", "6", "6", "8",
        "2", "3", "5", "0", "8", "9", "8", "6", "3", "3", "8", "8",
        "5", "8", "7", "9", "2", "5", "6", "2", "8", "3", "0", "2",
        "7", "5", "5", "9", "9", "5", "6", "5", "7", "5", "2", "4",
        "4", "5", "5", "5", "0", "7", "2", "5", "5", "1", "8", "9",
        "3", "1", "3", "6", "9", "0", "8", "3", "6", "2", "5", "4",
        "7", "7", "9", "1", "8", "6", "9", "4", "8", "6", "6", "7",
        "9", "9", "4", "9", "6", "8", "3", "2", "4", "0", "4", "9",
        "7", "0", "5", "8", "2", "1", "0", "2", "8", "5", "1", "3",
        "1", "8", "5", "4", "5", "1", "3", "9", "6", "2", "1", "3",
        "8", "3", "7", "7", "2", "2", "8", "2", "6", "1", "4", "5",
        "4", "3", "7", "6", "9", "3", "4", "1", "2", "5", "3", "2",
        "0", "9", "8", "5", "9", "1", "3", "2", "7", "6", "6", "7",
        "2", "3", "6", "3", "2", "8", "1", "2", "5">>,
      <<"0", ",", "0", "0", "0", "0", "0", "0", "0", "0", "0", "0",
        "0", "0", "0", "0", "0", "0", "0", "0", "0", "0", "0", "0",
        "0", "0", "0", "0", "0", "0", "0", "0", "0", "0", "0", "0",
        "0", "0", "0", "0", "0", "0", "0", "0", "0", "0", "0", "0",
        "0", "0", "0", "0", "0", "0", "0", "0", "0", "0", "0", "0",
        "0", "0", "0", "0", "0", "0", "0", "0", "0", "0", "0", "0",
        "0", "0", "0", "0", "0", "0", "0", "0", "0", "0", "0", "0",
        "0", "0", "0", "0", "0", "0", "0", "0", "0", "0", "0", "0",
        "0", "0", "0", "0", "0", "0", "0", "0", "0", "0", "0", "0",
        "0", "0", "0", "0", "0", "0", "0", "0", "0", "0", "0", "0",
        "0", "0", "0", "0", "0", "0", "0", "0", "0", "0", "0", "0",
        "0", "0", "0", "0", "0", "0", "0", "0", "0", "0", "0", "0",
        "0", "0", "0", "0", "0", "0", "0", "0", "0", "0", "0", "0",
        "0", "0", "0", "0", "0", "0", "0", "0", "0", "0", "0", "0",
        "0", "0", "0", "0", "0", "0", "0", "0", "0", "0", "0", "0",
        "0", "0", "0", "0", "0", "0", "0", "0", "0", "0", "0", "0",
        "0", "0", "0", "0", "0", "0", "0", "0", "0", "0", "0", "0",
        "0", "0", "0", "0", "0", "0", "0", "0", "0", "0", "0", "0",
        "0", "0", "0", "0", "0", "0", "0", "0", "0", "0", "0", "0",
        "0", "0", "0", "0", "0", "0", "0", "0", "0", "0", "0", "0",
        "0", "0", "0", "0", "0", "0", "0", "0", "0", "0", "0", "0",
        "0", "0", "0", "0", "0", "0", "0", "0", "0", "0", "0", "0",
        "0", "0", "0", "0", "0", "0", "0", "0", "0", "0", "0", "0",
        "0", "0", "0", "0", "0", "0", "0", "0", "0", "0", "0", "0",
        "0", "0", "0", "0", "0", "0", "0", "0", "0", "0", "0", "0",
        "0", "0", "0", "0", "0", "0", "0", "0", "0", "0", "0", "0",
        "0", "0", "0", "0", "0", "0", "0", "0", "0", "0", "0", "0",
        "0", "2", "4", "7", "0", "3", "2", "8", "2", "2", "9", "2",
        "0", "6", "2", "3", "2", "7", "2", "0", "8", "8", "2", "8",
        "4", "3", "9", "6", "4", "3", "4", "1", "1", "0", "6", "8",
        "6", "1", "8", "2", "5", "2", "9", "9", "0", "1", "3", "0",
        "7", "1", "6", "2", "3", "8", "2", "2", "1", "2", "7", "9",
        "2", "8", "4", "1", "2", "5", "0", "3", "3", "7", "7", "5",
        "3", "6", "3", "5", "1", "0", "4", "3", "7", "5", "9", "3",
        "2", "6", "4", "9", "9", "1", "8", "1", "8", "0", "8", "1",
        "7", "9", "9", "6", "1", "8", "9", "8", "9", "8", "2", "8",
        "2", "3", "4", "7", "7", "2", "2", "8", "5", "8", "8", "6",
        "5", "4", "6", "3", "3", "2", "8", "3", "5", "5", "1", "7",
        "7", "9", "6", "9", "8", "9", "8", "1", "9", "9", "3", "8",
        "7", "3", "9", "8", "0", "0", "5", "3", "9", "0", "9", "3",
        "9", "0", "6", "3", "1", "5", "0", "3", "5", "6", "5", "9",
        "5", "1", "5", "5", "7", "0", "2", "2", "6", "3", "9", "2",
        "2", "9", "0", "8", "5", "8", "3", "9", "2", "4", "4", "9",
        "1", "0", "5", "1", "8", "4", "4", "3", "5", "9", "3", "1",
        "8", "0", "2", "8", "4", "9", "9", "3", "6", "5", "3", "6",
        "1", "5", "2", "5", "0", "0", "3", "1", "9", "3", "7", "0",
        "4", "5", "7", "6", "7", "8", "2", "4", "9", "2", "1", "9",
        "3", "6", "5", "6", "2", "3", "6", "6", "9", "8", "6", "3",
        "6", "5", "8", "4", "8", "0", "7", "5", "7", "0", "0", "1",
        "5", "8", "5", "7", "6", "9", "2", "6", "9", "9", "0", "3",
        "7", "0", "6", "3", "1", "1", "9", "2", "8", "2", "7", "9",
        "5", "5", "8", "5", "5", "1", "3", "3", "2", "9", "2", "7",
        "8", "3", "4", "3", "3", "8", "4", "0", "9", "3", "5", "1",
        "9", "7", "8", "0", "1", "5", "5", "3", "1", "2", "4", "6",
        "5", "9", "7", "2", "6", "3", "5", "7", "9", "5", "7", "4",
        "6", "2", "2", "7", "6", "6", "4", "6", "5", "2", "7", "2",
        "8", "2", "7", "2", "2", "0", "0", "5", "6", "3", "7", "4",
        "0", "0", "6", "4", "8", "5", "4", "9", "9", "9", "7", "7",
        "0", "9", "6", "5", "9", "9", "4", "7", "0", "4", "5", "4",
        "0", "2", "0", "8", "2", "8", "1", "6", "6", "2", "2", "6",
        "2", "3", "7", "8", "5", "7", "3", "9", "3", "4", "5", "0",
        "7", "3", "6", "3", "3", "9", "0", "0", "7", "9", "6", "7",
        "7", "6", "1", "9", "3", "0", "5", "7", "7", "5", "0", "6",
        "7", "4", "0", "1", "7", "6", "3", "2", "4", "6", "7", "3",
        "6", "0", "0", "9", "6", "8", "9", "5", "1", "3", "4", "0",
        "5", "3", "5", "5", "3", "7", "4", "5", "8", "5", "1", "6",
        "6", "6", "1", "1", "3", "4", "2", "2", "3", "7", "6", "6",
        "6", "7", "8", "6", "0", "4", "1", "6", "2", "1", "5", "9",
        "6", "8", "0", "4", "6", "1", "9", "1", "4", "4", "6", "7",
        "2", "9", "1", "8", "4", "0", "3", "0", "0", "5", "3", "0",
        "0", "5", "7", "5", "3", "0", "8", "4", "9", "0", "4", "8",
        "7", "6", "5", "3", "9", "1", "7", "1", "1", "3", "8", "6",
        "5", "9", "1", "6", "4", "6", "2", "3", "9", "5", "2", "4",
        "9", "1", "2", "6", "2", "3", "6", "5", "3", "8", "8", "1",
        "8", "7", "9", "6", "3", "6", "2", "3", "9", "3", "7", "3",
        "2", "8", "0", "4", "2", "3", "8", "9", "1", "0", "1", "8",
        "6", "7", "2", "3", "4", "8", "4", "9", "7", "6", "6", "8",
        "2", "3", "5", "0", "8", "9", "8", "6", "3", "3", "8", "8",
        "5", "8", "7", "9", "2", "5", "6", "2", "8", "3", "0", "2",
        "7", "5", "5", "9", "9", "5", "6", "5", "7", "5", "2", "4",
        "4", "5", "5", "5", "0", "7", "2", "5", "5", "1", "8", "9",
        "3", "1", "3", "6", "9", "0", "8", "3", "6", "2", "5", "4",
        "7", "7", "9", "1", "8", "6", "9", "4", "8", "6", "6", "7",
        "9", "9", "4", "9", "6", "8", "3", "2", "4", "0", "4", "9",
        "7", "0", "5", "8", "2", "1", "0", "2", "8", "5", "1", "3",
        "1", "8", "5", "4", "5", "1", "3", "9", "6", "2", "1", "3",
        "8", "3", "7", "7", "2", "2", "8", "2", "6", "1", "4", "5",
        "4", "3", "7", "6", "9", "3", "4", "1", "2", "5", "3", "2",
        "0", "9", "8", "5", "9", "1", "3", "2", "7", "6", "6", "7",
        "2", "3", "6", "3", "2", "8", "1", "2", "5", "1">>,
      <<"-", "0", ",", "0", "0", "0", "0", "0", "0", "0", "0", "0",
        "0", "0", "0", "0", "0", "0", "0", "0", "0", "0", "0", "0",
        "0", "0", "0", "0", "0", "0", "0", "0", "0", "0", "0", "0",
        "0", "0", "0", "0", "0", "0", "0", "0", "0", "0", "0", "0",
        "0", "0", "0", "0", "0", "0", "0", "0", "0", "0", "0", "0",
        "0", "0", "0", "0", "0", "0", "0", "0", "0", "0", "0", "0",
        "0", "0", "0", "0", "0", "0", "0", "0", "0", "0", "0", "0",
        "0", "0", "0", "0", "0", "0", "0", "0", "0", "0", "0", "0",
        "0", "0", "0", "0", "0", "0", "0", "0", "0", "0", "0", "0",
        "0", "0", "0", "0", "0", "0", "0", "0", "0", "0", "0", "0",
        "0", "0", "0", "0", "0", "0", "0", "0", "0", "0", "0", "0",
        "0", "0", "0", "0", "0", "0", "0", "0", "0", "0", "0", "0",
        "0", "0", "0", "0", "0", "0", "0", "0", "0", "0", "0", "0",
        "0", "0", "0", "0", "0", "0", "0", "0", "0", "0", "0", "0",
        "0", "0", "0", "0", "0", "0", "0", "0", "0", "0", "0", "0",
        "0", "0", "0", "0", "0", "0", "0", "0", "0", "0", "0", "0",
        "0", "0", "0", "0", "0", "0", "0", "0", "0", "0", "0", "0",
        "0", "0", "0", "0", "0", "0", "0", "0", "0", "0", "0", "0",
        "0", "0", "0", "0", "0", "0", "0", "0", "0", "0", "0", "0",
        "0", "0", "0", "0", "0", "0", "0", "0", "0", "0", "0", "0",
        "0", "0", "0", "0", "0", "0", "0", "0", "0", "0", "0", "0",
        "0", "0", "0", "0", "0", "0", "0", "0", "0", "0", "0", "0",
        "0", "0", "0", "0", "0", "0", "0", "0", "0", "0", "0", "0",
        "0", "0", "0", "0", "0", "0", "0", "0", "0", "0", "0", "0",
        "0", "0", "0", "0", "0", "0", "0", "0", "0", "0", "0", "0",
        "0", "0", "0", "0", "0", "0", "0", "0", "0", "0", "0", "0",
        "0", "0", "0", "0", "0", "0", "0", "0", "0", "0", "0", "0",
        "0", "0", "0", "0", "0", "0", "0", "0", "0", "0", "0", "0",
        "0", "0", "0", "0", "0", "0", "0", "0", "0", "0", "0", "0",
        "0", "0", "0", "0", "0", "0", "0", "0", "0", "0", "0", "0",
        "0", "0", "0", "0", "0", "0", "0", "0", "0", "0", "0", "0",
        "0", "0", "0", "0", "0", "0", "0", "0", "0", "0", "0", "0",
        "0", "0", "0", "0", "0", "0", "0", "0", "0", "0", "0", "0",
        "0", "0", "0", "0", "0", "0", "0", "1">>,
      <<"0", "0", "0", "0", "0", "0", "0", "0", "0", "0", "0", "0",
        "0", "0", "0", "0", "0", "0", "0", "0", "0", "0", "0", "0",
        "0", "0", "0", "0", "0", "0", "0", "0", "0", "0", "0", "0",
        "0", "0", "0", "0", "0", "0", "0", "0", "0", "0", "0", "0",
        "0", "0", "0", "0", "0", "0", "0", "0", "0", "0", "0", "0",
        "0", "0", "0", "0", "0", "0", "0", "0", "0", "0", "0", "0",
        "0", "0", "0", "0", "0", "0", "0", "0", "0", "0", "0", "0",
        "0", "0", "0", "0", "0", "0", "0", "0", "0", "0", "0", "0",
        "0", "0", "0", "0", "0", "0", "0", "0", "0", "0", "0", "0",
        "0", "0", "0", "0", "0", "0", "0", "0", "0", "0", "0", "0",
        "0", "0", "0", "0", "0", "0", "0", "0", "0", "0", "0", "0",
        "0", "0", "0", "0", "0", "0", "0", "0", "0", "0", "0", "0",
        "0", "0", "0", "0", "0", "0", "0", "0", "0", "0", "0", "0",
        "0", "0", "0", "0", "0", "0", "0", "0", "0", "0", "0", "0",
        "0", "0", "0", "0", "0", "0", "0", "0", "0", "0", "0", "0",
        "0", "0", "0", "0", "0", "0", "0", "0", "0", "0", "0", "0",
        "0", "0", "0", "0", "0", "0", "0", "0", "0", "0", "0", "0",
        "0", "0", "0", "0", "0", "0", "0", "0", "0", "0", "0", "0",
        "0", "0", "0", "0", "0", "0", "0", "0", "0", "0", "0", "0",
        "0", "0", "0", "0", "0", "0", "0", "0", "0", "0", "0", "0",
        "0", "0", "0", "0", "0", "0", "0", "0", "0", "0", "0", "0",
        "0", "0", "0", "0", "0", "0", "0", "0", "0", "0", "0", "0",
        "0", "0", "0", "0", "0", "0", "0", "0", "0", "0", "0", "0",
        "0", "0", "0", "0", "0", "0", "0", "0", "0", "0", "0", "0",
        "0", "0", "0", "0", "0", "0", "0", "0", "0", "0", "0", "0",
        "0", "0", "0", "0", "0", "0", "0", "0", "0", "0", "0", "0",
        "0", "0", "0", "0", "0", "0", "0", "0", "0", "0", "0", "0",
        "0", "0", "0", "0", "0", "0", "0", "0", "0", "0", "0", "0",
        "0", "0", "0", "0", "0", "0", "0", "0", "0", "0", "0", "0",
        "0", "0", "0", "0", "0", "0", "0", "0", "0", "0", "0", "0",
        "0", "0", "0", "0", "0", "0", "0", "0", "0", "0", "0", "0",
        "0", "0", "0", "0", "0", "0", "0", "0", "0", "0", "0", "0",
        "0", "0", "0", "0", "0", "0", "0", "0", "0", "0", "0", "0",
        "0", "0", "0", "0", "5", ",", "5", "0">> }

NormInputs ==
    UNION {[1..n -> Alphabet] : n \in 0..MaxLen} \cup ExampleTexts
        \cup FloatTexts

InitNorm ==
    /\ InitScraper
    /\ nin \in NormInputs
    /\ nout = NotRun

\* One call of _sanitize_price_string.
Normalize ==
    /\ nout = NotRun
    /\ nout' = sanitize_price_string(nin)
    /\ UNCHANGED <<mainpc, runs, token, authHdr, sessOpen, providers, tasks,
                   reqs, loginSt, loginTok, listSt, clock, nin>>

NextNorm == Normalize

SpecNorm == InitNorm /\ [][NextNorm]_vars


-----------------------------------------------------------------------------
(* Properties *)

\* The requests of one kind sent by the current run (who = 0: run() itself).
Sent(kind) == {r \in BagToSet(reqs) : r.kind = kind}

\* How many requests of a kind task i has sent in the current run.
SentBy(kind, i) ==
    LET rs == {r \in BagToSet(reqs) : r.kind = kind /\ r.who = i}
    IN  IF rs = {} THEN 0 ELSE CopiesIn(CHOOSE r \in rs : TRUE, reqs)

\* Task i has sent no price request: its except clause, if it ran, caught
\* the parse error.
SentByNone(i) == SentBy("price", i) = 0

\* The run is over: run() has returned or has been left by an exception.
RunOver == mainpc \in {"sleep", "crashed"}

\* Task i met one of the failures of the claim: a response with a status
\* other than 200 (to its record or page request), a page without the
\* element, or a text that does not parse.
TaskFailed(i) ==
    \/ tasks[i].pc = "raised" /\ tasks[i].getSt = 500
    \/ tasks[i].log \in {"failed_to_scrape", "no_price_found"}
    \/ tasks[i].log = "error_processing" /\ tasks[i].pc = "done"
                                        /\ SentByNone(i)

\* Every call of every provider task was answered (none raised).
AllAnswered ==
    \A i \in DOMAIN tasks : tasks[i].getSt # ERR /\ tasks[i].pageSt # ERR

\* C1: once a run is over, a failure in one provider's task has not kept any
\* other provider of the run from being processed to the end of its own task.
C1_SiblingsProcessed ==
    (RunOver /\ AllAnswered) =>
        \A i \in DOMAIN tasks : \A j \in DOMAIN tasks :
            (i # j /\ TaskFailed(i)) => Finished(tasks[j])

\* C2: a run whose login and listing succeeded does not end without having
\* sent its run timing, whatever happened in the provider tasks.
C2_RunReachesFinalize ==
    (RunOver /\ loginSt = 200 /\ listSt = 200 /\ AllAnswered) =>
        Sent("post_run") # {}

\* C3: after a login or a listing answered with a status other than 200,
\* main() is still alive (asleep or in a later run): the process has not ended.
C3_LoopSurvivesFatalRun ==
    (loginSt \in {201, 500} \/ listSt = 500) => mainpc # "crashed"

\* C4: in a run whose login did not return 200, no request other than the
\* login request is sent, also when an earlier run left a token behind.
C4_FailedLoginSendsNothing ==
    (loginSt # NONE /\ loginSt # 200) =>
        \A r \in BagToSet(reqs) : r.kind = "login"

\* C4 witness: the second run's login fails while the first run's token is
\* still stored.
C4_Witness ==
    /\ runs = 2
    /\ loginSt = 500
    /\ token # <<>>
    /\ Sent("login") # {}

\* The normalizer's outcome on each text a page can hold.
NormalizedText == [t \in PriceTexts \cup {<<>>} |-> sanitize_price_string(t)]

\* The text found by task i, as the normalizer sees it.
Normalized(i) == NormalizedText[tasks[i].text]

\* C5: a provider whose text does not parse, or parses to zero or less, gets
\* no price request; zero and negative texts are values to the normalizer
\* (the task logs the refusal of the caller, not a parse error).
C5_NoPostForInvalidPrice ==
    \A i \in DOMAIN tasks :
        tasks[i].seen = "text" =>
            LET price == Normalized(i)
            IN  /\ (~price.ok \/ price.sign <= 0) => SentBy("price", i) = 0
                /\ (~price.ok) => tasks[i].log = "error_processing"
                /\ (price.ok /\ price.sign <= 0) => tasks[i].log = "failed_to_add"

\* C5 witness: one run saw an unparsable text, a zero and a positive price.
C5_Witness ==
    /\ mainpc = "post_run"
    /\ \E i \in DOMAIN tasks : tasks[i].seen = "text" /\ ~Normalized(i).ok
    /\ \E i \in DOMAIN tasks :
            /\ tasks[i].seen = "text"
            /\ Normalized(i).ok
            /\ Normalized(i).sign <= 0
            /\ SentBy("price", i) = 0


\* The Authorization header "{token_type} {access_token}" made from a token.
HeaderFor(tok) == <<tok[2], tok[1]>>

\* C6: every run that sends anything sends its own login first, and every
\* request after it carries the token which that run's login returned, which
\* by then is the stored token.
C6_FreshTokenEachRun ==
    /\ reqs # EmptyBag => CopiesIn(Request("login", 0, <<>>), reqs) = 1
    /\ \A r \in BagToSet(reqs) :
            r.kind # "login" =>
                /\ loginSt = 200
                /\ loginTok # <<>>
                /\ token = loginTok
                /\ r.hdr = HeaderFor(loginTok)

\* C6 witness: a second run whose provider task has sent a price under the
\* token of the second login.
C6_Witness ==
    /\ runs = 2
    /\ loginTok = Token("t2", "Bearer")
    /\ \E r \in Sent("price") : r.hdr = <<"Bearer", "t2">>

\* The requests to the API's own endpoints other than login.
ApiKinds == {"list", "get", "price", "put", "post_run"}

\* C7: a request to an API endpoint other than login is sent only while the
\* credentials hold a token, and carries that token's Authorization header.
C7_AuthenticatedRequests ==
    \A r \in BagToSet(reqs) :
        r.kind \in ApiKinds => (token # <<>> /\ r.hdr = HeaderFor(token))

\* C7 witness: a run has sent every kind of authenticated API request.
C7_Witness ==
    /\ token # <<>>
    /\ \A k \in ApiKinds : Sent(k) # {}

\* Task i's page returned 200, held the element, and its text is a price
\* above zero.
ValidPrice(i) ==
    /\ tasks[i].pageSt = 200
    /\ tasks[i].seen = "text"
    /\ LET price == Normalized(i) IN price.ok /\ price.sign > 0

\* Every provider-record fetch of the run succeeded.
AllRecordsFetched == \A i \in DOMAIN tasks : tasks[i].getSt = 200

\* C8: once a run whose login, listing and record fetches succeeded is over,
\* a provider has exactly one price request if its page returned 200 with an
\* element whose text is a price above zero, and none otherwise; the "no
\* price found" lines are those of the providers whose page lacked the
\* element.
C8_PostsMatchValidPrices ==
    (loginSt = 200 /\ listSt = 200 /\ AllRecordsFetched
                   /\ mainpc \in {"post_run", "sleep", "crashed"}) =>
        /\ \A i \in DOMAIN tasks :
                SentBy("price", i) = IF ValidPrice(i) THEN 1 ELSE 0
        /\ \A i \in DOMAIN tasks :
                (tasks[i].log = "no_price_found") <=>
                    (tasks[i].pageSt = 200 /\ tasks[i].seen = "noelem")


-----------------------------------------------------------------------------
(* Properties of the price normalizer (specification SpecNorm) *)

\* The places where old occurs in s.
RefOccurrences(s, old) ==
    {i \in 1..(Len(s) - Len(old) + 1) : SubSeq(s, i, i + Len(old) - 1) = old}

\* s with every occurrence of old removed, leftmost first.
RECURSIVE RefRemoveAll(_, _)
RefRemoveAll(s, old) ==
    IF RefOccurrences(s, old) = {} THEN s
    ELSE LET i == CHOOSE k \in RefOccurrences(s, old) :
                      \A m \in RefOccurrences(s, old) : k <= m
         IN  SubSeq(s, 1, i - 1)
                 \o RefRemoveAll(SubSeq(s, i + Len(old), Len(s)), old)

RefNotPoint(c) == c # "."

RefNotSpace(c) == c # " "

\* The cleaning as the documentation words it: "kr." out, ",-" out, every
\* point out, every comma to a point, every space out.
RefClean(s) ==
    LET a == RefRemoveAll(s, <<"k", "r", ".">>)
        b == RefRemoveAll(a, <<",", "-">>)
        c == SelectSeq(b, RefNotPoint)
        d == [i \in 1..Len(c) |-> IF c[i] = "," THEN "." ELSE c[i]]
    IN  SelectSeq(d, RefNotSpace)

\* c without its sign.
RefBody(c) == IF c # <<>> /\ c[1] = "-" THEN Tail(c) ELSE c

\* c writes a number: an optional minus, digits with at most one point among
\* them, at least one digit.
RefNumeric(c) ==
    LET b == RefBody(c)
    IN  /\ \A i \in 1..Len(b) : b[i] \in Digits \cup {"."}
        /\ Cardinality({i \in 1..Len(b) : b[i] = "."}) <= 1
        /\ \E i \in 1..Len(b) : b[i] \in Digits

\* The digits of c before its point.
RefInt(c) ==
    LET b    == RefBody(c)
        dots == {i \in 1..Len(b) : b[i] = "."}
    IN  IF dots = {} THEN b ELSE SubSeq(b, 1, (CHOOSE i \in dots : TRUE) - 1)

\* The digits of c after its point.
RefFrac(c) ==
    LET b    == RefBody(c)
        dots == {i \in 1..Len(b) : b[i] = "."}
    IN  IF dots = {} THEN <<>>
        ELSE SubSeq(b, (CHOOSE i \in dots : TRUE) + 1, Len(b))

\* The digits d in ASCII, without the zeros in front.
RefSignificant(d) ==
    StripZeros([i \in DOMAIN d |-> DecimalDigits[1][DigitVal(d[i]) + 1]])

\* The number written by sign, the digits sig (no zero in front) and nfrac
\* digits after the point; zero has no sign.
RefFloat(neg, sig, nfrac) ==
    Float("finite", IF sig = <<>> THEN 0 ELSE IF neg THEN 0 - 1 ELSE 1,
          StripZerosRight(sig),
          IF sig = <<>> THEN 0
          ELSE Len(sig) - Len(StripZerosRight(sig)) - nfrac)

\* The number the numeric text c denotes.
RefValue(c) ==
    RefFloat(c[1] = "-", RefSignificant(RefInt(c) \o RefFrac(c)),
             Len(RefFrac(c)))

\* The number sig * 10^-nfrac is 2^1024 - 2^970 or more: the nearest double
\* is inf.
RefHuge(sig, nfrac) ==
    \/ Len(sig) - 1 - nfrac > MaxExp10
    \/ Len(sig) - 1 - nfrac = MaxExp10 /\ ~DigitsAbove(InfFrom, sig)

\* The number sig * 10^-nfrac is 2^-1075 or less: the nearest double is zero.
RefTiny(sig, nfrac) ==
    \/ sig = <<>>
    \/ Len(sig) - 1 - nfrac < MinExp10
    \/ Len(sig) - 1 - nfrac = MinExp10 /\ ~DigitsAbove(sig, ZeroUpTo)

\* The double nearest to the number written by neg, sig and nfrac, as far as
\* inf and zero go: a number between the two limits stands for its double.
RefRounded(neg, sig, nfrac) ==
    IF RefHuge(sig, nfrac)
    THEN Float("inf", IF neg THEN 0 - 1 ELSE 1, <<>>, 0)
    ELSE IF RefTiny(sig, nfrac) THEN Float("finite", 0, <<>>, 0)
    ELSE RefFloat(neg, sig, nfrac)

\* The double nearest to the number the numeric text c denotes.
RefDouble(c) ==
    RefRounded(c[1] = "-", RefSignificant(RefInt(c) \o RefFrac(c)),
               Len(RefFrac(c)))

\* c is written with more digits than float() reads.
RefTooLong(c) ==
    \/ Len(RefSignificant(RefInt(c) \o RefFrac(c))) > MaxDigits
    \/ Len(RefFrac(c)) > MaxDigits

NormDone == nout # NotRun

\* The alphabet of the claim: digits, ".", ",", "-", " ", "k", "r" and
\* letters that no number is written with.
ClaimAlphabet == Digits \cup {".", ",", "-", " ", "k", "r", "a", "b", "c"}

OverClaimAlphabet(s) == \A i \in DOMAIN s : s[i] \in ClaimAlphabet

\* C9 as stated: the normalizer returns the number denoted by the cleaned
\* text, and a parse error exactly when the cleaned text is not numeric;
\* "12.345,-kr." gives 12345, "9,99 kr." gives 9.99 and "abc" gives a parse
\* error.
C9_NormalizerValue ==
    (NormDone /\ OverClaimAlphabet(nin)) =>
        /\ nout.ok <=> RefNumeric(RefClean(nin))
        /\ nout.ok => nout = RefValue(RefClean(nin))
        /\ nin = <<"1", "2", ".", "3", "4", "5", ",", "-", "k", "r", ".">> =>
              nout = Float("finite", 1, <<"1", "2", "3", "4", "5">>, 0)
        /\ nin = <<"9", ",", "9", "9", " ", "k", "r", ".">> =>
              nout = Float("finite", 1, <<"9", "9", "9">>, 0 - 2)
        /\ nin = <<"a", "b", "c">> => ~nout.ok

\* C9 as amended: the normalizer returns the double nearest to the number
\* denoted by the cleaned text, which is inf from 2^1024 - 2^970 up and zero
\* from 2^-1075 down, and a parse error exactly when the cleaned text is not
\* numeric or is written with more than MaxDigits digits; "12.345,-kr."
\* gives 12345, "9,99 kr." gives 9.99 and "abc" gives a parse error.
C9_NormalizerNearestDouble ==
    (NormDone /\ OverClaimAlphabet(nin)) =>
        /\ nout.ok <=> (/\ RefNumeric(RefClean(nin))
                        /\ ~RefTooLong(RefClean(nin)))
        /\ nout.ok => nout = RefDouble(RefClean(nin))
        /\ nin = <<"1", "2", ".", "3", "4", "5", ",", "-", "k", "r", ".">> =>
              nout = Float("finite", 1, <<"1", "2", "3", "4", "5">>, 0)
        /\ nin = <<"9", ",", "9", "9", " ", "k", "r", ".">> =>
              nout = Float("finite", 1, <<"9", "9", "9">>, 0 - 2)
        /\ nin = <<"a", "b", "c">> => ~nout.ok

\* C9 witness: a price of 310 digits, "1" and 309 zeros with " kr." after
\* it, has been normalized to inf.
C9_Witness ==
    /\ Len(nin) = 314
    /\ nin[1] = "1"
    /\ SubSeq(nin, 311, 314) = <<" ", "k", "r", ".">>
    /\ OverClaimAlphabet(nin)
    /\ RefNumeric(RefClean(nin))
    /\ nout = Float("inf", 1, <<>>, 0)

\* C10 as stated: the parse error carries the text the normalizer was given.
C10_ErrorCarriesOriginal ==
    (NormDone /\ ~nout.ok) => nout.msg = nin

\* C10 as amended: the parse error carries the cleaned text, the one float
\* was given.
C10_ErrorCarriesCleaned ==
    (NormDone /\ ~nout.ok) => nout.msg = RefClean(nin)

\* C10 witness: "abc kr." fails with an error that carries "abc".
C10_Witness ==
    /\ nin = <<"a", "b", "c", " ", "k", "r", ".">>
    /\ NormDone
    /\ ~nout.ok
    /\ nout.msg = <<"a", "b", "c">>


-----------------------------------------------------------------------------
(* Properties of the loop and of the phases of a run *)

\* Every call made so far was answered with a response (none raised).
NoCallRaised ==
    /\ loginSt # ERR
    /\ listSt # ERR
    /\ AllAnswered
    /\ \A i \in DOMAIN tasks : tasks[i].priceSt # ERR /\ tasks[i].putSt # ERR
    /\ ~(mainpc = "crashed" /\ Sent("post_run") # {})

\* C11: the outer loop runs forever: whatever the API answers, main() is
\* never left, so that a next run is always still to come.
C11_LoopRunsForever ==
    NoCallRaised => mainpc # "crashed"

\* The requests sent by provider tasks.
TaskKinds == {"get", "page", "price", "put"}

TaskRequests(bag) == {r \in BagToSet(bag) : r.kind \in TaskKinds}

\* C12, in each state: the list request is sent only after the login was
\* answered, provider tasks exist and send only after the list was answered,
\* there is one task per listed provider, and the run timing is sent only
\* when every task has returned.
C12_PhaseOrder ==
    /\ Sent("list") # {} => loginSt = 200
    /\ (tasks # <<>> \/ TaskRequests(reqs) # {}) => listSt = 200
    /\ listSt = 200 => Len(tasks) = Len(providers)
    /\ Sent("post_run") # {} => \A i \in DOMAIN tasks : tasks[i].pc = "done"

\* C12: the phases of a run are strictly sequential, and once the run timing
\* has been sent no provider task sends anything more in that run.
C12_PhasesSequential ==
    /\ []C12_PhaseOrder
    /\ [][(Sent("post_run") # {} /\ runs' = runs) =>
              \A r \in BagToSet(reqs') :
                  r.kind \in TaskKinds => CopiesIn(r, reqs') = CopiesIn(r, reqs)]_vars

\* C12 witness: two tasks have run to their end, one of them through the
\* price and last_accessed requests, and the run timing has been sent.
C12_Witness ==
    /\ Sent("post_run") # {}
    /\ Len(tasks) = 2
    /\ Sent("put") # {}
    /\ Cardinality(Sent("get")) = 2

-----------------------------------------------------------------------------
(* Properties of the price report and the last_accessed call *)

\* C14: in a run, each provider's last_accessed request is sent at most once,
\* only after that provider's one price post was answered 200 or 201; with any
\* other answer to the price post, or without a price post, none is sent.
C14_PutOnlyAfterAcceptedPrice ==
    \A i \in DOMAIN tasks :
        /\ SentBy("put", i) <= 1
        /\ SentBy("put", i) = 1 =>
               (SentBy("price", i) = 1 /\ tasks[i].priceSt \in {200, 201})
        /\ tasks[i].priceSt \in {ERR, 500} => SentBy("put", i) = 0
        /\ SentBy("price", i) = 0 => SentBy("put", i) = 0

\* C14 witness: a finished run in which one provider's price post was answered
\* 201 and its last_accessed request was sent, while another provider's price
\* post was answered 500 and its task returned.
C14_Witness ==
    /\ mainpc = "sleep"
    /\ \E i \in DOMAIN tasks : \E j \in DOMAIN tasks :
          /\ tasks[i].priceSt = 201 /\ SentBy("put", i) = 1
          /\ tasks[j].priceSt = 500 /\ tasks[j].pc = "done"

\* The last_accessed call of task i failed: it raised or was answered with a
\* status other than 200.
PutFailed(i) == tasks[i].putSt \in {ERR, 500}

\* C15: a failed last_accessed call does not leave its task by an exception,
\* and a run in which it is the only kind of failure ends with every task
\* returned and the run timing sent.
C15_PutFailureNotPropagated ==
    /\ \A i \in DOMAIN tasks : PutFailed(i) => tasks[i].pc = "done"
    /\ (/\ RunOver
        /\ \E i \in DOMAIN tasks : PutFailed(i)
        /\ \A j \in DOMAIN tasks : tasks[j].getSt = 200 /\ tasks[j].pageSt # ERR)
       => /\ \A j \in DOMAIN tasks : tasks[j].pc = "done"
          /\ Sent("post_run") # {}

\* C15 witness: one provider's last_accessed call raised, another provider
\* finished its own report after that, and the run went to sleep with its
\* timing sent.
C15_Witness ==
    /\ mainpc = "sleep"
    /\ Sent("post_run") # {}
    /\ \E i \in DOMAIN tasks : \E j \in DOMAIN tasks :
          /\ tasks[i].putSt = ERR
          /\ tasks[j].putSt = 200

\* C16, in each state: after a list response other than 200 the run has sent
\* nothing but its login and list requests and has created no task.
C16_NoRequestAfterFailedList ==
    listSt \notin {NONE, 200} =>
        /\ \A r \in BagToSet(reqs) : r.kind \in {"login", "list"}
        /\ tasks = <<>>

\* C16: a list response other than 200 ends the run at the listing: no
\* request follows it, and the stored provider list stays as it was.
C16_FailedListAbortsRun ==
    /\ []C16_NoRequestAfterFailedList
    /\ [][listSt' \notin {NONE, 200} => providers' = providers]_vars

\* C16 witness: the second run's listing is answered 500 while the list
\* stored by the first run is still held.
C16_Witness ==
    /\ runs = 2
    /\ listSt = 500
    /\ providers # <<>>

\* C18: when the authenticated session has been closed and control has left
\* run(), every provider task created by the run has returned or raised.
C18_TasksEndBeforeRunLeaves ==
    (~sessOpen /\ AllAnswered) => \A i \in DOMAIN tasks : Finished(tasks[i])

\* C19: every request for a provider's page carries the Authorization header
\* made from the token of the run's login, and the login request is the only
\* request of a run without an Authorization header.
C19_PageRequestCarriesToken ==
    \A r \in BagToSet(reqs) :
        /\ r.kind = "page" =>
               (loginTok # <<>> /\ r.hdr # <<>> /\ r.hdr = HeaderFor(loginTok))
        /\ r.hdr = <<>> <=> r.kind = "login"

\* C19 witness: in the second run a page request has left with the header of
\* the second login's token.
C19_Witness ==
    /\ runs = 2
    /\ loginTok = Token("t2", "Bearer")
    /\ \E r \in Sent("page") : r.hdr = <<"Bearer", "t2">>

-----------------------------------------------------------------------------
(* Properties of the run timing *)

\* The time denoted by an isoformat text.
TimeOf(iso) == iso[2]

\* C13: a run that reaches _post_run sends exactly one run timing; its
\* start_time is the clock reading taken when that run began, its end_time
\* the reading taken in _post_run, start_time <= end_time, and a run does not
\* start before the end_time of the run before it (which self.run_end holds
\* until the run's own _post_run).
C13_RunTiming ==
    /\ Len(posted) <= 1
    /\ Len(posted) = Cardinality(Sent("post_run"))
    /\ \A r \in Sent("post_run") : CopiesIn(r, reqs) = 1
    /\ mainpc \in {"post_run", "sleep"} => Len(posted) = 1
    /\ \A k \in DOMAIN posted :
          /\ TimeOf(posted[k].start_time) = runInit
          /\ TimeOf(posted[k].end_time) = run_end
          /\ TimeOf(posted[k].start_time) <= TimeOf(posted[k].end_time)
    /\ (runs >= 2 /\ posted = <<>> /\ runInit # NONE /\ run_end # NONE) =>
          run_end <= runInit

-----------------------------------------------------------------------------
(* Properties of the provider record fetch *)

\* C17: in every run each entry of the provider list gets exactly one
\* GET /providers/{id}, sent before any answer of the run's tasks is handled,
\* and a page request has left only for a provider whose record request of
\* the same run was answered 200, to the url of the record that answer
\* carried.
C17_RecordFetchedEachRun ==
    /\ \A i \in DOMAIN tasks : SentBy("get", i) <= 1
    /\ (listSt = 200 /\ Started) =>
           /\ DOMAIN tasks = DOMAIN providers
           /\ \A i \in DOMAIN providers : SentBy("get", i) = 1
    /\ \A i \in DOMAIN tasks :
           SentBy("page", i) > 0 =>
               /\ SentBy("get", i) = 1
               /\ tasks[i].getSt = 200
               /\ tasks[i].rec = Record(providers[i].id, runs)
               /\ tasks[i].pageOf = tasks[i].rec

\* C17 witness: the second run over the same list has fetched every record
\* again and has sent every page request.
C17_Witness ==
    /\ runs = 2
    /\ mainpc = "sleep"
    /\ Len(providers) = MaxProviders
    /\ \A i \in DOMAIN providers :
           SentBy("get", i) = 1 /\ SentBy("page", i) = 1

=============================================================================
